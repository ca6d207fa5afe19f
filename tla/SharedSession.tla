---------------------------- MODULE SharedSession ----------------------------
(***************************************************************************)
(* What one API client promises the calls that share its session, without  *)
(* headers, exchanges, time-outs or a console (api/auth.py:207-267 and the *)
(* frame around every operation of api/*.py): a call goes through at most  *)
(* one login, one request, one more login and one retry, in this order;    *)
(* only the call whose turn it is changes the session, to a newer one, and *)
(* passes the turn on as it does or as it ends; and a retry goes out with  *)
(* a session newer than the one that was refused to the call.  With an API *)
(* key there are no logins.                                                *)
(***************************************************************************)
EXTENDS Integers

CONSTANTS Calls,  \* the calls of client operations
          NoCall  \* the value of `owner` when it is nobody's turn

VARIABLES apiKey,  \* the client has an API key
          stage,   \* how far each call is
          owner,   \* the call whose turn it is to log in
          session, \* the session, numbered in the order of issue; 0 is none
          refused  \* the session that was refused to each call; 0 is none

vars == <<apiKey, stage, owner, session, refused>>

NeedsSession == {"login", "relogin"}
Begun        == NeedsSession \cup {"request", "retry"}

Init ==
    /\ apiKey \in BOOLEAN
    /\ stage = [c \in Calls |-> "idle"]
    /\ owner = NoCall
    /\ session = 0
    /\ refused = [c \in Calls |-> 0]

Moves(c, to) == stage' = [stage EXCEPT ![c] = to]

\* What a call that needed a session does with it.
WithSession(c) == IF stage[c] = "login" THEN "request" ELSE "retry"

\* The call starts with the session there is, or with the API key ...
Start(c) ==
    /\ stage[c] = "idle"
    /\ apiKey \/ session > 0
    /\ Moves(c, "request")
    /\ UNCHANGED <<apiKey, owner, session, refused>>

\* ... or has to log in, and it may be its turn at once.
StartWithLogin(c) ==
    /\ stage[c] = "idle"
    /\ ~apiKey
    /\ Moves(c, "login")
    /\ owner' = IF owner = NoCall THEN c ELSE owner
    /\ UNCHANGED <<apiKey, session, refused>>

\* The session of its request, perhaps an old one, is refused to the call.
Refused(c) ==
    /\ stage[c] = "request"
    /\ \E s \in 0 .. session : refused' = [refused EXCEPT ![c] = s]
    /\ \/ /\ apiKey
          /\ Moves(c, "retry")
          /\ UNCHANGED owner
       \/ /\ ~apiKey
          /\ Moves(c, "relogin")
          /\ owner' = IF owner = NoCall THEN c ELSE owner
    /\ UNCHANGED <<apiKey, session>>

\* It is the turn of a call that waited ...
TakesTurn(c) ==
    /\ stage[c] \in NeedsSession
    /\ owner = NoCall
    /\ owner' = c
    /\ UNCHANGED <<apiKey, stage, session, refused>>

\* ... or somebody has logged in meanwhile, later than its refusal.
Joins(c) ==
    /\ stage[c] \in NeedsSession
    /\ owner = NoCall
    /\ session > refused[c]
    /\ Moves(c, WithSession(c))
    /\ UNCHANGED <<apiKey, owner, session, refused>>

\* The call logs in, and may fail as soon as it has.
LogsIn(c) ==
    /\ owner = c
    /\ session' > session
    /\ owner' = NoCall
    /\ Moves(c, WithSession(c)) \/ Moves(c, "ended")
    /\ UNCHANGED <<apiKey, refused>>

\* The call returns, fails or is cancelled.
Ends(c) ==
    /\ stage[c] \in Begun
    /\ Moves(c, "ended")
    /\ owner' = IF owner = c THEN NoCall ELSE owner
    /\ UNCHANGED <<apiKey, session, refused>>

Next ==
    \E c \in Calls :
        \/ Start(c) \/ StartWithLogin(c) \/ Refused(c)
        \/ TakesTurn(c) \/ Joins(c) \/ LogsIn(c) \/ Ends(c)

Spec == Init /\ [][Next]_vars
=============================================================================
