------------------------------ MODULE RpcdSession ------------------------------
(***************************************************************************)
(* The rpcd session of one OpenWrtAPI object (api.py): login, the renewal   *)
(* of the token, the destruction of the replaced session, the cache of      *)
(* ACL-blocked methods, the authentication backoff, and async_close.        *)
(*                                                                          *)
(* One OpenWrtAPI is shared by every task of its config entry: the poll of  *)
(* the coordinator and the commands of the switches and buttons.  Nothing   *)
(* serialises them, so a task may be suspended at any await while another   *)
(* one changes the token.  An action is the code between two awaits; a      *)
(* request is answered by the router in a step of its own, and the task     *)
(* consumes the answer in a later one.                                      *)
(*                                                                          *)
(* Abstractions.  Time: "the token is not near its expiry" and "the backoff *)
(* has not run out" are Booleans that the environment clears at any moment. *)
(* Errors: an answer is a session, ok, denied (HTTP 403, -32002, status 6)  *)
(* or failed (timeout, connection, unusable reply, unknown method).         *)
(* Session identifiers are random in rpcd; here an identifier that nothing  *)
(* refers to any more may be issued again, which keeps the state finite     *)
(* without a bound on the number of logins.                                 *)
(***************************************************************************)
EXTENDS Naturals, FiniteSets

CONSTANTS Tasks,            \* concurrent users of the API object
          Closer,           \* the task that unloads the entry (async_close)
          Sessions,         \* session identifiers of rpcd
          NoSession,        \* DEFAULT_SESSION_ID
          Methods,          \* ACL cache keys: object/method, or a file/uci path
          Permitted,        \* the methods the router's ACL grants
          MaxAuthFailures,  \* _MAX_AUTH_FAILURES
          MayRestart        \* whether rpcd may restart, and lose every session, also
                            \* between a login and the request that follows it

ASSUME SessionAssumptions ==
  /\ Closer \notin Tasks
  /\ IsFiniteSet(Tasks)
  /\ NoSession \notin Sessions
  /\ Sessions \cap {"none", "ok", "denied", "failed"} = {}
  /\ Methods # {}
  /\ Permitted \subseteq Methods
  /\ MaxAuthFailures \in Nat \ {0}
  /\ MayRestart \in BOOLEAN

VARIABLES
  token,         \* self._token
  fresh,         \* monotonic() < _token_expires_at - SESSION_REFRESH_MARGIN
  aclBlocked,    \* self._acl_blocked
  authFailures,  \* self._auth_failure_count
  backoff,       \* monotonic() < self._auth_backoff_until
  closing,       \* self._closing
  call,          \* for each task, the call it executes and the open request
  live,          \* router: the sessions rpcd knows
  leaked         \* history: sessions whose login reply or destroy was lost

client == <<token, fresh, aclBlocked, authFailures, backoff, closing>>
vars == <<client, call, live, leaked>>

Procs  == Tasks \cup {Closer}
Tokens == Sessions \cup {NoSession}
Answer == Sessions \cup {"none", "ok", "denied", "failed"}

\* "at" is the request the task awaits: the login, the destruction of the
\* replaced session, the call itself, or its repetition after a re-login.
CallState == [at       : {"idle", "login", "destroy", "call", "retry"},
              method   : Methods,
              why      : {"refresh", "retry"},  \* what the login was made for
              sent     : Tokens,                \* the token inside the payload
              replaced : Tokens,                \* old_token / active_token
              answer   : Answer]

AnyMethod == CHOOSE m \in Methods : TRUE

Idle == [at |-> "idle", method |-> AnyMethod, why |-> "refresh",
         sent |-> NoSession, replaced |-> NoSession, answer |-> "none"]

TypeOK ==
  /\ token \in Tokens
  /\ fresh \in BOOLEAN
  /\ aclBlocked \subseteq Methods
  /\ authFailures \in Nat
  /\ backoff \in BOOLEAN
  /\ closing \in BOOLEAN
  /\ call \in [Procs -> CallState]
  /\ live \subseteq Sessions
  /\ leaked \subseteq Sessions

\* The state in which async_setup_entry hands the API object to the tasks:
\* logged in once, while nothing else used it.
Init ==
  /\ \E s \in Sessions : token = s /\ live = {s}
  /\ fresh = TRUE
  /\ aclBlocked = {}
  /\ authFailures = 0
  /\ backoff = FALSE
  /\ closing = FALSE
  /\ call = [p \in Procs |-> Idle]
  /\ leaked = {}

-------------------------------------------------------------------------------
(* The client.                                                              *)

\* While this holds _call raises OpenWrtAuthBackoffError before any request.
Gated == authFailures >= MaxAuthFailures /\ backoff

\* login() up to its await: it remembers the session it is about to replace.
LoginRequest(m, why) ==
  [at |-> "login", method |-> m, why |-> why,
   sent |-> NoSession, replaced |-> token, answer |-> "none"]

\* _build_call with the token current at that moment.
Request(stage, m, tok) ==
  [at |-> stage, method |-> m, why |-> "refresh",
   sent |-> tok, replaced |-> NoSession, answer |-> "none"]

\* _call after the proactive refresh: a method cached as blocked is refused
\* without a request.
Dispatch(m, tok) ==
  IF m \in aclBlocked THEN Idle ELSE Request("call", m, tok)

\* Where a task goes on when its login has returned.
AfterLogin(c, tok) ==
  IF c.why = "refresh" THEN Dispatch(c.method, tok)
                       ELSE Request("retry", c.method, tok)

\* Fault: a call starts in spite of the backoff.
StartCallUngated(t, m) ==
  /\ call[t].at = "idle"
  /\ ~closing
  /\ call' = [call EXCEPT ![t] = IF fresh THEN Dispatch(m, token)
                                          ELSE LoginRequest(m, "refresh")]
  /\ UNCHANGED <<client, live, leaked>>

StartCall(t, m) ==
  /\ call[t].at = "idle"
  /\ ~closing
  /\ ~Gated
  /\ authFailures' = IF authFailures >= MaxAuthFailures THEN 0 ELSE authFailures
  /\ call' = [call EXCEPT ![t] = IF fresh THEN Dispatch(m, token)
                                          ELSE LoginRequest(m, "refresh")]
  /\ UNCHANGED <<token, fresh, aclBlocked, backoff, closing, live, leaked>>

\* The failure counter is cleared once the re-login of a denied call returned.
ClearedBy(c) == IF c.why = "retry" THEN 0 ELSE authFailures

\* The router accepted the login and there is no earlier session to destroy
\* (async_close forgot the token while the call was under way).
FirstLogin(t) ==
  LET c == call[t] IN
  /\ c.at = "login" /\ c.answer \in Sessions
  /\ c.replaced \in {NoSession, c.answer}
  /\ token' = c.answer
  /\ fresh' = TRUE
  /\ authFailures' = ClearedBy(c)
  /\ call' = [call EXCEPT ![t] = AfterLogin(c, c.answer)]
  /\ UNCHANGED <<aclBlocked, backoff, closing, live, leaked>>

\* Fault: the replaced session is not destroyed.
ReloginOrphaning(t) ==
  LET c == call[t] IN
  /\ c.at = "login" /\ c.answer \in Sessions
  /\ c.replaced \notin {NoSession, c.answer}
  /\ token' = c.answer
  /\ fresh' = TRUE
  /\ authFailures' = ClearedBy(c)
  /\ call' = [call EXCEPT ![t] = AfterLogin(c, c.answer)]
  /\ UNCHANGED <<aclBlocked, backoff, closing, live, leaked>>

\* Fault: the session to destroy is read after the new token was stored.
ReloginLateRead(t) ==
  LET c == call[t] IN
  /\ c.at = "login" /\ c.answer \in Sessions
  /\ c.replaced \notin {NoSession, c.answer}
  /\ token' = c.answer
  /\ fresh' = TRUE
  /\ call' = [call EXCEPT ![t] = [c EXCEPT !.at = "destroy",
                                           !.sent = c.answer,
                                           !.replaced = c.answer,
                                           !.answer = "none"]]
  /\ UNCHANGED <<aclBlocked, authFailures, backoff, closing, live, leaked>>

\* The router accepted the login: the new token is stored and, authenticated
\* with it, the session remembered before the login is destroyed.
Relogin(t) ==
  LET c == call[t] IN
  /\ c.at = "login" /\ c.answer \in Sessions
  /\ c.replaced \notin {NoSession, c.answer}
  /\ token' = c.answer
  /\ fresh' = TRUE
  /\ call' = [call EXCEPT ![t] = [c EXCEPT !.at = "destroy",
                                           !.sent = c.answer,
                                           !.answer = "none"]]
  /\ UNCHANGED <<aclBlocked, authFailures, backoff, closing, live, leaked>>

\* _destroy_session swallows every error; the call goes on with whatever
\* token the API object holds by now.
DestroyReturns(t) ==
  LET c == call[t] IN
  /\ t \in Tasks
  /\ c.at = "destroy" /\ c.answer # "none"
  /\ authFailures' = ClearedBy(c)
  /\ call' = [call EXCEPT ![t] = AfterLogin(c, token)]
  /\ UNCHANGED <<token, fresh, aclBlocked, backoff, closing, live, leaked>>

\* _note_login_failure: counted and the backoff armed, then the error is raised.
LoginRefused(t) ==
  /\ call[t].at = "login" /\ call[t].answer = "denied"
  /\ authFailures' = authFailures + 1
  /\ backoff' = TRUE
  /\ call' = [call EXCEPT ![t] = Idle]
  /\ UNCHANGED <<token, fresh, aclBlocked, closing, live, leaked>>

\* A login, a call or a repeated call that failed otherwise raises its error.
RequestRaises(t) ==
  /\ call[t].at \in {"login", "call", "retry"}
  /\ call[t].answer = "failed"
  /\ call' = [call EXCEPT ![t] = Idle]
  /\ UNCHANGED <<client, live, leaked>>

CallSucceeds(t) ==
  /\ call[t].at = "call" /\ call[t].answer = "ok"
  /\ authFailures' = 0
  /\ call' = [call EXCEPT ![t] = Idle]
  /\ UNCHANGED <<token, fresh, aclBlocked, backoff, closing, live, leaked>>

\* Fault: the first denial is taken for an ACL restriction.
CallDeniedBlocks(t) ==
  /\ call[t].at = "call" /\ call[t].answer = "denied"
  /\ aclBlocked' = aclBlocked \cup {call[t].method}
  /\ call' = [call EXCEPT ![t] = Idle]
  /\ UNCHANGED <<token, fresh, authFailures, backoff, closing, live, leaked>>

\* -32002: the session may have expired, so log in again and repeat once.
CallDenied(t) ==
  /\ call[t].at = "call" /\ call[t].answer = "denied"
  /\ call' = [call EXCEPT ![t] = LoginRequest(call[t].method, "retry")]
  /\ UNCHANGED <<client, live, leaked>>

RetrySucceeds(t) ==
  /\ call[t].at = "retry" /\ call[t].answer = "ok"
  /\ call' = [call EXCEPT ![t] = Idle]
  /\ UNCHANGED <<client, live, leaked>>

\* Fault: a repeated call that is denied logs in once more.
RetryDeniedRepeats(t) ==
  /\ call[t].at = "retry" /\ call[t].answer = "denied"
  /\ call' = [call EXCEPT ![t] = LoginRequest(call[t].method, "retry")]
  /\ UNCHANGED <<client, live, leaked>>

\* Denied again after the re-login: remembered as an ACL restriction.
RetryDenied(t) ==
  /\ call[t].at = "retry" /\ call[t].answer = "denied"
  /\ aclBlocked' = aclBlocked \cup {call[t].method}
  /\ call' = [call EXCEPT ![t] = Idle]
  /\ UNCHANGED <<token, fresh, authFailures, backoff, closing, live, leaked>>

\* async_close: no new call from here on; the active session is destroyed.
Close ==
  /\ ~closing
  /\ closing' = TRUE
  /\ IF token = NoSession
       THEN fresh' = FALSE /\ UNCHANGED call
       ELSE /\ call' = [call EXCEPT ![Closer] =
                          [Idle EXCEPT !.at = "destroy",
                                       !.sent = token, !.replaced = token]]
            /\ UNCHANGED fresh
  /\ UNCHANGED <<token, aclBlocked, authFailures, backoff, live, leaked>>

\* Fault: the token is cleared to a value that is not the null session.
CloseReturnsNone ==
  /\ call[Closer].at = "destroy" /\ call[Closer].answer # "none"
  /\ token' = "none"
  /\ fresh' = FALSE
  /\ call' = [call EXCEPT ![Closer] = Idle]
  /\ UNCHANGED <<aclBlocked, authFailures, backoff, closing, live, leaked>>

\* The destroy returned or its 3 s were over: the token is forgotten.
CloseReturns ==
  /\ call[Closer].at = "destroy" /\ call[Closer].answer # "none"
  /\ token' = NoSession
  /\ fresh' = FALSE
  /\ call' = [call EXCEPT ![Closer] = Idle]
  /\ UNCHANGED <<aclBlocked, authFailures, backoff, closing, live, leaked>>

TaskStep(t) ==
  \/ FirstLogin(t) \/ Relogin(t) \/ DestroyReturns(t) \/ LoginRefused(t)
  \/ RequestRaises(t) \/ CallSucceeds(t) \/ CallDenied(t)
  \/ RetrySucceeds(t) \/ RetryDenied(t)

-------------------------------------------------------------------------------
(* The router and the network (external).                                   *)

Awaiting(p, stages) == call[p].at \in stages /\ call[p].answer = "none"

Answered(p, a) == call' = [call EXCEPT ![p].answer = a]

\* Identifiers nobody refers to.
Unused ==
  Sessions \ (live \cup {token}
              \cup UNION {{call[p].sent, call[p].replaced, call[p].answer}
                          : p \in Procs})

RouterLogin(p) ==
  /\ Awaiting(p, {"login"})
  /\ \/ \E s \in Unused : Answered(p, s) /\ live' = live \cup {s}
     \/ Answered(p, "denied") /\ UNCHANGED live
  /\ UNCHANGED <<client, leaked>>

RouterCall(p) ==
  /\ Awaiting(p, {"call", "retry"})
  /\ Answered(p, IF call[p].sent \in live /\ call[p].method \in Permitted
                   THEN "ok" ELSE "denied")
  /\ UNCHANGED <<client, live, leaked>>

\* What stays on the router when the destroy request of p is not carried out.
Undestroyed(p) == IF call[p].at = "destroy" THEN {call[p].replaced} ELSE {}

RouterDestroy(p) ==
  LET c == call[p] IN
  /\ Awaiting(p, {"destroy"})
  /\ IF c.sent \in live
       THEN /\ Answered(p, "ok")
            /\ live' = live \ {c.replaced}
            /\ leaked' = leaked \ {c.replaced}
       ELSE /\ Answered(p, "denied")
            /\ leaked' = leaked \cup (Undestroyed(p) \cap live)
            /\ UNCHANGED live
  /\ UNCHANGED client

\* The request never reaches the router, or the client gives up on it.
RequestLost(p) ==
  /\ Awaiting(p, {"login", "destroy", "call", "retry"})
  /\ Answered(p, "failed")
  /\ leaked' = leaked \cup (Undestroyed(p) \cap live)
  /\ UNCHANGED <<client, live>>

\* The router did its part but the reply does not reach the client.
ReplyLost(p) ==
  /\ call[p].answer \in Sessions \cup {"ok", "denied"}
  /\ Answered(p, "failed")
  /\ leaked' = leaked \cup ({call[p].answer} \cap live)
  /\ UNCHANGED <<client, live>>

\* No task is between the login for this session and the request that follows it.
Settled(s) ==
  \A p \in Procs : /\ s # call[p].answer
                   /\ call[p].at \in {"destroy", "retry"} => s # call[p].sent

\* The time to live of a session ends.  It is minutes long, a request takes seconds.
SessionExpires(s) ==
  /\ s \in live
  /\ Settled(s)
  /\ live' = live \ {s}
  /\ leaked' = leaked \ {s}
  /\ UNCHANGED <<client, call>>

RpcdRestart ==
  /\ live # {}
  /\ MayRestart \/ \A s \in live : Settled(s)
  /\ live' = {}
  /\ leaked' = {}
  /\ UNCHANGED <<client, call>>

\* A token ages for minutes, a request takes seconds: not while a task is
\* still between its login and the request that follows it.
TokenAges ==
  /\ fresh
  /\ \A t \in Tasks : call[t].at \notin {"destroy", "retry"}
  /\ fresh' = FALSE
  /\ UNCHANGED <<token, aclBlocked, authFailures, backoff, closing, call, live, leaked>>

BackoffEnds ==
  /\ backoff
  /\ backoff' = FALSE
  /\ UNCHANGED <<token, fresh, aclBlocked, authFailures, closing, call, live, leaked>>

RouterStep(p) ==
  RouterLogin(p) \/ RouterCall(p) \/ RouterDestroy(p) \/ RequestLost(p)

Environment ==
  \/ \E p \in Procs : ReplyLost(p)
  \/ \E s \in Sessions : SessionExpires(s)
  \/ RpcdRestart \/ TokenAges \/ BackoffEnds

Next ==
  \/ \E t \in Tasks, m \in Methods : StartCall(t, m)
  \/ \E t \in Tasks : TaskStep(t)
  \/ Close \/ CloseReturns
  \/ \E p \in Procs : RouterStep(p)
  \/ Environment

Spec == Init /\ [][Next]_vars

\* asyncio resumes a task whose request was answered, and every request is
\* answered or ends by the total timeout of the HTTP session.
Fairness ==
  /\ \A t \in Tasks : WF_vars(TaskStep(t))
  /\ WF_vars(CloseReturns)
  /\ \A p \in Procs : WF_vars(RouterStep(p))

LiveSpec == Spec /\ Fairness

-------------------------------------------------------------------------------
(* Properties.                                                              *)

Quiet == \A p \in Procs : call[p].at = "idle"

\* However the logins of several tasks interleave, the clean-up after a login
\* (api.py login, the destroy of old_token) never targets the session that
\* the API object uses at that moment.
DestroyTargetsReplaced ==
  \A t \in Tasks : call[t].at = "destroy" => call[t].replaced # token

\* "Without this, every re-login orphans a long-lived rpcd session" (login):
\* once no request is open, the router holds no session besides the current
\* token and those whose login reply or destroy request was lost.
NoOrphan == Quiet /\ ~closing => live \subseteq {token} \cup leaked

\* A method is cached as blocked for the rest of the session only if it is
\* "a genuine ACL restriction, NOT a credential issue" (_call).
BlockedIsGenuine == ~closing => aclBlocked \cap Permitted = {}

\* The failure counter exceeds the threshold of the backoff by no more than the
\* calls that had passed the gate before (_call and _note_login_failure): the
\* exponent of the backoff stays small however many tasks fail together.
GateBoundsFailures ==
  authFailures + Cardinality({t \in Tasks : call[t].at # "idle"})
    <= MaxAuthFailures - 1 + Cardinality(Tasks)

\* Every call ends, with its result or an error: the re-login is tried once
\* and never again for the same call.
CallsEnd == \A t \in Tasks : call[t].at # "idle" ~> call[t].at = "idle"
================================================================================
