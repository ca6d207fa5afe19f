----------------------------- MODULE UnasSession -----------------------------
(***************************************************************************)
(* The authenticated session that every operation of one API client        *)
(* shares (api/auth.py, api/transport.py and the `_ensure_authenticated;   *)
(* try; except InvalidAuth: login; retry` frame around every operation of  *)
(* api/*.py).                                                              *)
(*                                                                         *)
(* A task is one call of a client operation: the storage poll, the startup *)
(* refresh, a service call, an entity write.  Tasks are asyncio tasks, so  *)
(* an action is the code between two awaits that really suspend.  Sessions *)
(* are numbered in the order the console issues them; 0 is "no session".   *)
(* The console (Expire ... RefuseLogin) is the environment.           *)
(***************************************************************************)
EXTENDS Integers

CONSTANTS Tasks,       \* the concurrent calls of client operations
          NoTask,      \* the value of `lock` when the login lock is free
          Cancellable, \* calls that asyncio may cancel (the poll's budget)
          MaxExtra     \* further requests one attempt may send (paths, payloads)

ASSUME SessionAssumption ==
    /\ NoTask \notin Tasks
    /\ Cancellable \subseteq Tasks
    /\ MaxExtra \in Nat

VARIABLES useApiKey,     \* the client's `_use_api_key_auth`, fixed by its constructor
          authenticated, \* client._authenticated
          cookie,        \* the session in client._token_cookie
          lock,          \* holder of client._login_lock
          pc,            \* where each call is suspended
          attempt,       \* 1, or 2 once the call was rejected and retries
          sent,          \* session carried by the call's last request
          rejected,      \* session of the request that was rejected first
          extra,         \* further requests sent in this attempt
          reply,         \* the console's answer, until the call reads it
          grant,         \* session opened by the call's login request
          issued,        \* console: sessions opened so far
          live,          \* console: sessions still honoured
          refused        \* history: the console refused valid credentials

client == <<authenticated, cookie, lock>>
calls  == <<pc, attempt, sent, rejected, extra>>
wire   == <<reply, grant>>
console == <<issued, live, refused, useApiKey>>
vars == <<client, calls, wire, console>>

LoggingIn == {"priming", "posting"}
Ended     == {"done", "authFailed", "unreachable", "cancelled"}
Phases    == {"idle", "waiting", "inflight"} \cup LoggingIn \cup Ended
Replies   == {"none", "accepted", "rejected"}

TypeOK ==
    /\ useApiKey \in BOOLEAN
    /\ authenticated \in BOOLEAN
    /\ cookie \in Nat
    /\ lock \in Tasks \cup {NoTask}
    /\ pc \in [Tasks -> Phases]
    /\ attempt \in [Tasks -> {1, 2}]
    /\ sent \in [Tasks -> Nat]
    /\ rejected \in [Tasks -> Nat]
    /\ extra \in [Tasks -> 0 .. MaxExtra]
    /\ reply \in [Tasks -> Replies]
    /\ grant \in [Tasks -> Nat]
    /\ issued \in Nat
    /\ live \in SUBSET (1 .. issued)
    /\ refused \in BOOLEAN

Init ==
    /\ useApiKey \in BOOLEAN
    /\ authenticated = useApiKey
    /\ cookie = 0
    /\ lock = NoTask
    /\ pc = [t \in Tasks |-> "idle"]
    /\ attempt = [t \in Tasks |-> 1]
    /\ sent = [t \in Tasks |-> 0]
    /\ rejected = [t \in Tasks |-> 0]
    /\ extra = [t \in Tasks |-> 0]
    /\ reply = [t \in Tasks |-> "none"]
    /\ grant = [t \in Tasks |-> 0]
    /\ issued = 0
    /\ live = {}
    /\ refused = FALSE

(***************************************************************************)
(* Steps shared by the handlers.                                           *)
(***************************************************************************)

\* `_request` / `_request_raw`: the headers take the cookie of the moment.
Send(t, session) ==
    /\ pc' = [pc EXCEPT ![t] = "inflight"]
    /\ sent' = [sent EXCEPT ![t] = session]
    /\ reply' = [reply EXCEPT ![t] = "none"]

\* Mutant: the login exchange without the lock.
EnterLoginUnlocked(t) ==
    /\ pc' = [pc EXCEPT ![t] = "priming"]
    /\ lock' = t
    /\ reply' = [reply EXCEPT ![t] = "none"]
    /\ UNCHANGED sent

\* `async with self._login_lock` by a call that has just seen, with no
\* suspension since, that the client is not authenticated.
EnterLogin(t) ==
    /\ pc' = [pc EXCEPT ![t] = IF lock = NoTask THEN "priming" ELSE "waiting"]
    /\ lock' = IF lock = NoTask THEN t ELSE lock
    /\ reply' = [reply EXCEPT ![t] = "none"]
    /\ UNCHANGED sent

\* Mutant: an exception leaves the lock held.
EndHoldingLock(t, outcome) ==
    /\ pc' = [pc EXCEPT ![t] = outcome]
    /\ UNCHANGED lock

\* The call returns or raises; leaving `async with` releases the lock.
End(t, outcome) ==
    /\ pc' = [pc EXCEPT ![t] = outcome]
    /\ lock' = IF lock = t THEN NoTask ELSE lock

(***************************************************************************)
(* The call's own steps.                                                   *)
(***************************************************************************)

\* `_ensure_authenticated`, then the first request when no login is needed.
Begin(t) ==
    /\ pc[t] = "idle"
    /\ IF useApiKey \/ authenticated
         THEN authenticated' = TRUE /\ Send(t, cookie) /\ UNCHANGED lock
         ELSE EnterLogin(t) /\ UNCHANGED authenticated
    /\ UNCHANGED <<cookie, attempt, rejected, extra, grant, console>>

\* The lock is handed over; `async_login` looks at `_authenticated` again.
Acquire(t) ==
    /\ pc[t] = "waiting"
    /\ lock = NoTask
    /\ IF authenticated
         THEN Send(t, cookie) /\ UNCHANGED lock
         ELSE EnterLogin(t)
    /\ UNCHANGED <<authenticated, cookie, attempt, rejected, extra, grant, console>>

\* `_prime_csrf_token` answered: the login request goes out.
Prime(t) ==
    /\ pc[t] = "priming"
    /\ pc' = [pc EXCEPT ![t] = "posting"]
    /\ UNCHANGED <<client, attempt, sent, rejected, extra, wire, console>>

\* The login response: capture the cookie, release, send the request.
LoginGranted(t) ==
    /\ pc[t] = "posting"
    /\ reply[t] = "accepted"
    /\ authenticated' = TRUE
    /\ cookie' = grant[t]
    /\ lock' = NoTask
    /\ Send(t, grant[t])
    /\ UNCHANGED <<attempt, rejected, extra, grant, console>>

\* The cookie is captured from the headers, the body is never read.
LoginCut(t) ==
    /\ pc[t] = "posting"
    /\ reply[t] = "accepted"
    /\ cookie' = grant[t]
    /\ End(t, "unreachable")
    /\ UNCHANGED <<authenticated, attempt, sent, rejected, extra, wire, console>>

\* 401/403 to the login request: InvalidAuth out of the whole operation.
LoginRefused(t) ==
    /\ pc[t] = "posting"
    /\ reply[t] = "rejected"
    /\ End(t, "authFailed")
    /\ UNCHANGED <<authenticated, cookie, attempt, sent, rejected, extra, wire, console>>

\* The request was answered and was the last one of the operation.
Finish(t) ==
    /\ pc[t] = "inflight"
    /\ reply[t] = "accepted"
    /\ End(t, "done")
    /\ UNCHANGED <<authenticated, cookie, attempt, sent, rejected, extra, wire, console>>

\* The request was answered and the attempt sends another one.
SendAnother(t) ==
    /\ pc[t] = "inflight"
    /\ reply[t] = "accepted"
    /\ extra[t] < MaxExtra
    /\ extra' = [extra EXCEPT ![t] = @ + 1]
    /\ Send(t, cookie)
    /\ UNCHANGED <<client, attempt, rejected, grant, console>>

\* Mutant: without `_authenticated = False`, async_login returns at once.
ReauthenticateWithoutReset(t) ==
    /\ pc[t] = "inflight"
    /\ reply[t] = "rejected"
    /\ attempt[t] = 1
    /\ attempt' = [attempt EXCEPT ![t] = 2]
    /\ rejected' = [rejected EXCEPT ![t] = sent[t]]
    /\ extra' = [extra EXCEPT ![t] = 0]
    /\ Send(t, cookie)
    /\ UNCHANGED <<client, grant, console>>

\* Mutant: the retry may be retried, as often as it is rejected.
ReauthenticateForEver(t) ==
    /\ pc[t] = "inflight"
    /\ reply[t] = "rejected"
    /\ rejected' = [rejected EXCEPT ![t] = sent[t]]
    /\ extra' = [extra EXCEPT ![t] = 0]
    /\ IF useApiKey
         THEN authenticated' = TRUE /\ Send(t, cookie) /\ UNCHANGED lock
         ELSE authenticated' = FALSE /\ EnterLogin(t)
    /\ UNCHANGED <<cookie, attempt, grant, console>>

\* 401/403 on the first attempt: `_authenticated = False; await async_login()`
\* and, in API-key mode, the retry at once.
Reauthenticate(t) ==
    /\ pc[t] = "inflight"
    /\ reply[t] = "rejected"
    /\ attempt[t] = 1
    /\ attempt' = [attempt EXCEPT ![t] = 2]
    /\ rejected' = [rejected EXCEPT ![t] = sent[t]]
    /\ extra' = [extra EXCEPT ![t] = 0]
    /\ IF useApiKey
         THEN authenticated' = TRUE /\ Send(t, cookie) /\ UNCHANGED lock
         ELSE authenticated' = FALSE /\ EnterLogin(t)
    /\ UNCHANGED <<cookie, grant, console>>

\* 401/403 on the retry: InvalidAuth out of the operation.
GiveUp(t) ==
    /\ pc[t] = "inflight"
    /\ reply[t] = "rejected"
    /\ attempt[t] = 2
    /\ End(t, "authFailed")
    /\ UNCHANGED <<authenticated, cookie, attempt, sent, rejected, extra, wire, console>>

\* `_request_with_timeout` gives up on any exchange, answered or not.
Unreachable(t) ==
    /\ pc[t] \in LoggingIn \cup {"inflight"}
    /\ End(t, "unreachable")
    /\ UNCHANGED <<authenticated, cookie, attempt, sent, rejected, extra, wire, console>>

\* CancelledError at whatever await the call is suspended in.
Cancel(t) ==
    /\ t \in Cancellable
    /\ pc[t] \in LoggingIn \cup {"waiting", "inflight"}
    /\ End(t, "cancelled")
    /\ UNCHANGED <<authenticated, cookie, attempt, sent, rejected, extra, wire, console>>

(***************************************************************************)
(* The console.                                                            *)
(***************************************************************************)

\* A session ends: timeout, reboot, sign-out elsewhere.
Expire ==
    /\ \E s \in live : live' = live \ {s}
    /\ UNCHANGED <<client, calls, wire, issued, refused, useApiKey>>

\* Whether the console honours what the call's request carries.
Honoured(t) == useApiKey \/ sent[t] \in live

\* A request is handled ...
Serve(t) ==
    /\ pc[t] = "inflight"
    /\ reply[t] = "none"
    /\ Honoured(t)
    /\ reply' = [reply EXCEPT ![t] = "accepted"]
    /\ UNCHANGED <<client, calls, grant, console>>

\* ... or rejected because its session is dead ...
RejectDead(t) ==
    /\ pc[t] = "inflight"
    /\ reply[t] = "none"
    /\ ~Honoured(t)
    /\ reply' = [reply EXCEPT ![t] = "rejected"]
    /\ UNCHANGED <<client, calls, grant, console>>

\* ... or refused all the same (403 for lack of a permission).
RefuseRequest(t) ==
    /\ pc[t] = "inflight"
    /\ reply[t] = "none"
    /\ Honoured(t)
    /\ reply' = [reply EXCEPT ![t] = "rejected"]
    /\ refused' = TRUE
    /\ UNCHANGED <<client, calls, grant, issued, live, useApiKey>>

\* A login request is handled: a new session ...
OpenSession(t) ==
    /\ pc[t] = "posting"
    /\ reply[t] = "none"
    /\ reply' = [reply EXCEPT ![t] = "accepted"]
    /\ issued' = issued + 1
    /\ live' = live \cup {issued + 1}
    /\ grant' = [grant EXCEPT ![t] = issued + 1]
    /\ UNCHANGED <<client, calls, refused, useApiKey>>

\* ... or the credentials are refused.
RefuseLogin(t) ==
    /\ pc[t] = "posting"
    /\ reply[t] = "none"
    /\ reply' = [reply EXCEPT ![t] = "rejected"]
    /\ refused' = TRUE
    /\ UNCHANGED <<client, calls, grant, issued, live, useApiKey>>

(***************************************************************************)
(* Specification.                                                          *)
(***************************************************************************)

\* What the event loop runs once the call has begun, console included.
Proceed(t) ==
    \/ Prime(t) \/ LoginGranted(t) \/ LoginCut(t) \/ LoginRefused(t)
    \/ Finish(t) \/ SendAnother(t) \/ Reauthenticate(t) \/ GiveUp(t)
    \/ Unreachable(t)
    \/ Serve(t) \/ RejectDead(t) \/ RefuseRequest(t) \/ OpenSession(t) \/ RefuseLogin(t)

\* All calls have ended; nothing is left to happen.
AllEnded == (\A t \in Tasks : pc[t] \in Ended) /\ UNCHANGED vars

Next ==
    \/ \E t \in Tasks : Begin(t) \/ Acquire(t) \/ Proceed(t) \/ Cancel(t)
    \/ Expire
    \/ AllEnded

\* Every exchange is bounded by the request timeout, and asyncio.Lock wakes
\* its waiters first come first served.
Fairness == \A t \in Tasks : WF_vars(Proceed(t)) /\ SF_vars(Acquire(t))

Spec == Init /\ [][Next]_vars /\ Fairness

(***************************************************************************)
(* Properties.                                                             *)
(***************************************************************************)

\* Two login exchanges never overlap (the lock of auth.py:217 is held from
\* the CSRF priming to the login response, and released on every way out).
OneLoginAtATime ==
    \A t, u \in Tasks : pc[t] \in LoggingIn /\ pc[u] \in LoggingIn => t = u

\* A retry never presents the session that was just rejected: whoever logged
\* in meanwhile, the retry carries a session opened after it (the `if
\* self._authenticated: return` of auth.py:218 must not hand back a dead one).
RetryUsesFreshSession ==
    \A t \in Tasks :
        pc[t] = "inflight" /\ attempt[t] = 2 /\ ~useApiKey => sent[t] > rejected[t]

\* The end of one session fails no operation: as long as the console has
\* refused no valid credentials, a call that ends with InvalidAuth has met
\* two different dead sessions.
FailureNeedsTwoExpiries ==
    ~refused => \A t \in Tasks :
        pc[t] = "authFailed" =>
            \E r, s \in (1 .. issued) \ live : r # s /\ r = rejected[t] /\ s = sent[t]

\* A late login response never replaces a newer session by an older one.
CookieNeverRegresses == [][cookie' >= cookie]_vars

\* How far a call is, for SharedSession: the retry frame gives each call two
\* attempts, and a login belongs to the attempt that follows it.
Stage(t) ==
    CASE pc[t] = "idle"     -> "idle"
      [] pc[t] \in Ended    -> "ended"
      [] pc[t] = "inflight" -> IF attempt[t] = 1 THEN "request" ELSE "retry"
      [] OTHER              -> IF attempt[t] = 1 THEN "login" ELSE "relogin"

Shared == INSTANCE SharedSession
            WITH Calls <- Tasks, NoCall <- NoTask, apiKey <- useApiKey,
                 stage <- [t \in Tasks |-> Stage(t)], owner <- lock, session <- cookie,
                 refused <- [t \in Tasks |-> IF attempt[t] = 1 THEN 0 ELSE rejected[t]]

\* The session frame implements SharedSession: whatever time-outs, refusals and
\* cancellations do, each call logs in at most twice and retries once, only the
\* holder of the lock replaces the session, by a newer one, and gives the lock
\* up with it or as it ends (auth.py:207-267, storage.py:53-60).
SharedSpec == Shared!Spec

\* Every call that has begun ends, whoever held the login lock before it.
EveryCallEnds == \A t \in Tasks : pc[t] # "idle" ~> pc[t] \in Ended
=============================================================================
