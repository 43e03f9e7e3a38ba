--------------------------- MODULE RpcdSession_proofs ---------------------------
(***************************************************************************)
(* Proofs about RpcdSession for any tasks, sessions, methods and grants.    *)
(* The type invariant first; then that the clean-up after a login never     *)
(* hits the session in use, which needs that an identifier still under way  *)
(* to the client differs from everything the client holds (AnswersAreFresh);*)
(* then that the failures are bounded, by counting the calls under way; and *)
(* last that with a single caller neither orphans nor wrong ACL blocks      *)
(* exist, so the counterexamples of the two-task runs are due to the        *)
(* concurrency and to nothing else.                                         *)
(***************************************************************************)
EXTENDS RpcdSession, FiniteSetTheorems, TLAPS

LEMMA IdleType == Idle \in CallState
<1>1. AnyMethod \in Methods
  BY SessionAssumptions DEF AnyMethod
<1> QED
  BY <1>1 DEF Idle, CallState, Tokens, Answer

LEMMA RequestTypes ==
  ASSUME TypeOK, NEW m \in Methods, NEW tok \in Tokens
  PROVE  /\ \A why \in {"refresh", "retry"} : LoginRequest(m, why) \in CallState
         /\ \A stage \in {"call", "retry"} : Request(stage, m, tok) \in CallState
         /\ Dispatch(m, tok) \in CallState
         /\ \A c \in CallState : AfterLogin(c, tok) \in CallState
<1>1. \A why \in {"refresh", "retry"} : LoginRequest(m, why) \in CallState
  BY DEF LoginRequest, CallState, TypeOK, Tokens, Answer
<1>2. \A n \in Methods : \A stage \in {"call", "retry"} : Request(stage, n, tok) \in CallState
  BY DEF Request, CallState, Tokens, Answer
<1>3. \A n \in Methods : Dispatch(n, tok) \in CallState
  BY <1>2, IdleType DEF Dispatch
<1>4. \A c \in CallState : AfterLogin(c, tok) \in CallState
  <2> SUFFICES ASSUME NEW c \in CallState PROVE AfterLogin(c, tok) \in CallState
    OBVIOUS
  <2>1. c.method \in Methods
    BY DEF CallState
  <2> QED
    BY <2>1, <1>2, <1>3 DEF AfterLogin
<1> QED
  BY <1>1, <1>2, <1>3, <1>4

LEMMA TypeStep == TypeOK /\ [Next]_vars => TypeOK'
<1> SUFFICES ASSUME TypeOK, [Next]_vars PROVE TypeOK'
  OBVIOUS
<1> USE DEF TypeOK
<1>0. \A p \in Procs : call[p] \in CallState
  OBVIOUS
<1>1. ASSUME NEW t \in Tasks, NEW m \in Methods, StartCall(t, m) PROVE TypeOK'
  <2>1. LoginRequest(m, "refresh") \in CallState /\ Dispatch(m, token) \in CallState
    BY RequestTypes
  <2> QED
    BY <1>1, <2>1 DEF StartCall
<1>2. ASSUME NEW t \in Tasks, TaskStep(t) PROVE TypeOK'
  <2> DEFINE c == call[t]
  <2>0. t \in Procs /\ c \in CallState
    BY <1>0 DEF Procs
  <2>a. ClearedBy(c) \in Nat
    BY DEF ClearedBy
  <2>1. CASE FirstLogin(t)
    <3>1. c.answer \in Tokens
      BY <2>1 DEF FirstLogin, Tokens
    <3>2. AfterLogin(c, c.answer) \in CallState
      BY <3>1, <2>0, <2>0, RequestTypes DEF CallState
    <3> QED
      BY <2>1, <3>1, <3>2, <2>0, <2>a DEF FirstLogin
  <2>2. CASE Relogin(t)
    <3>1. c.answer \in Tokens
      BY <2>2 DEF Relogin, Tokens
    <3>2. [c EXCEPT !.at = "destroy", !.sent = c.answer, !.answer = "none"] \in CallState
      BY <3>1, <2>0 DEF CallState, Answer
    <3> QED
      BY <2>2, <3>1, <3>2, <2>0 DEF Relogin
  <2>3. CASE DestroyReturns(t)
    <3>1. AfterLogin(c, token) \in CallState
      BY <2>0, RequestTypes DEF CallState
    <3> QED
      BY <2>3, <3>1, <2>0, <2>a DEF DestroyReturns
  <2>4. CASE LoginRefused(t)
    BY <2>4, <2>0, IdleType DEF LoginRefused
  <2>5. CASE RequestRaises(t)
    BY <2>5, <2>0, IdleType DEF RequestRaises, client
  <2>6. CASE CallSucceeds(t)
    BY <2>6, <2>0, IdleType DEF CallSucceeds
  <2>7. CASE CallDenied(t)
    <3>1. LoginRequest(c.method, "retry") \in CallState
      BY <2>0, RequestTypes DEF CallState
    <3> QED
      BY <2>7, <3>1, <2>0 DEF CallDenied, client
  <2>8. CASE RetrySucceeds(t)
    BY <2>8, <2>0, IdleType DEF RetrySucceeds, client
  <2>9. CASE RetryDenied(t)
    <3>1. c.method \in Methods
      BY <2>0 DEF CallState
    <3> QED
      BY <2>9, <3>1, <2>0, IdleType DEF RetryDenied
  <2> QED
    BY <1>2, <2>1, <2>2, <2>3, <2>4, <2>5, <2>6, <2>7, <2>8, <2>9 DEF TaskStep
<1>3. CASE Close
  <2>1. [Idle EXCEPT !.at = "destroy", !.sent = token, !.replaced = token] \in CallState
    BY IdleType DEF CallState
  <2> QED
    BY <1>3, <2>1 DEF Close, Procs
<1>4. CASE CloseReturns
  BY <1>4, IdleType DEF CloseReturns, Tokens, Procs
<1>5. ASSUME NEW p \in Procs, NEW a \in Answer, Answered(p, a)
      PROVE  call' \in [Procs -> CallState]
  <2>1. [call[p] EXCEPT !.answer = a] \in CallState
    BY <1>0 DEF CallState
  <2> QED
    BY <1>5, <2>1 DEF Answered
<1>6. ASSUME NEW p \in Procs, RouterStep(p) PROVE TypeOK'
  <2>0. {"ok", "denied", "failed"} \cup Sessions \subseteq Answer
    BY DEF Answer
  <2>1. CASE RouterLogin(p)
    BY <2>1, <2>0, <1>5 DEF RouterLogin, Unused, client
  <2>2. CASE RouterCall(p)
    BY <2>2, <2>0, <1>5 DEF RouterCall, client
  <2>3. CASE RouterDestroy(p)
    BY <2>3, <2>0, <1>5 DEF RouterDestroy, client
  <2>4. CASE RequestLost(p)
    BY <2>4, <2>0, <1>5 DEF RequestLost, client
  <2> QED
    BY <1>6, <2>1, <2>2, <2>3, <2>4 DEF RouterStep
<1>7. CASE Environment
  <2>1. ASSUME NEW p \in Procs, ReplyLost(p) PROVE TypeOK'
    <3>1. "failed" \in Answer
      BY DEF Answer
    <3> QED
      BY <2>1, <3>1, <1>5 DEF ReplyLost, client
  <2>2. ASSUME NEW s \in Sessions, SessionExpires(s) PROVE TypeOK'
    BY <2>2 DEF SessionExpires, client
  <2>3. CASE RpcdRestart
    BY <2>3 DEF RpcdRestart, client
  <2>4. CASE TokenAges
    BY <2>4 DEF TokenAges
  <2>5. CASE BackoffEnds
    BY <2>5 DEF BackoffEnds
  <2> QED
    BY <1>7, <2>1, <2>2, <2>3, <2>4, <2>5 DEF Environment
<1>8. CASE UNCHANGED vars
  BY <1>8 DEF vars, client
<1> QED
  BY <1>1, <1>2, <1>3, <1>4, <1>6, <1>7, <1>8 DEF Next

LEMMA InitType == Init => TypeOK
<1> SUFFICES ASSUME Init PROVE TypeOK
  OBVIOUS
<1>1. token \in Tokens /\ live \subseteq Sessions
  BY DEF Init, Tokens
<1>2. call \in [Procs -> CallState]
  BY IdleType DEF Init
<1> QED
  BY <1>1, <1>2 DEF Init, TypeOK

\* Every reachable state of the API object and of the router is well typed.
THEOREM TypeCorrect == Spec => []TypeOK
  BY InitType, TypeStep, PTL DEF Spec

--------------------------------------------------------------------------------
(* The clean-up after a login.                                              *)

\* A session identifier on its way to the client is none that the client
\* holds: not the token, not one about to be destroyed, not another answer.
AnswersAreFresh ==
  \A p \in Procs : call[p].answer \in Sessions =>
    /\ call[p].answer # token
    /\ \A q \in Procs : call[p].answer # call[q].replaced
    /\ \A q \in Procs \ {p} : call[p].answer # call[q].answer

\* A destroy request names a session, never the null session.
DestroyNamesSession ==
  \A p \in Procs : call[p].at = "destroy" => call[p].replaced # NoSession

CleanUpInv == AnswersAreFresh /\ DestroyNamesSession /\ DestroyTargetsReplaced

\* What a task does next carries no answer and has nothing to destroy.
LEMMA Continuations ==
  ASSUME NEW m \in Methods, NEW tok \in Tokens, NEW c \in CallState
  PROVE  \A r \in {Idle, Dispatch(m, tok), AfterLogin(c, tok)} :
           /\ r.answer = "none"
           /\ r.replaced = NoSession
           /\ r.at \in {"idle", "call", "retry"}
  BY DEF Idle, Dispatch, AfterLogin, Request

\* A step that puts no new answer on its way keeps the answers fresh.
LEMMA FreshKept ==
  ASSUME TypeOK, AnswersAreFresh, NEW p \in Procs, NEW r,
         r.answer \notin Sessions,
         r.replaced \in {token, NoSession, call[p].replaced},
         call' = [call EXCEPT ![p] = r],
         token' \in {token, NoSession} \cup ({call[p].answer} \cap Sessions)
  PROVE  AnswersAreFresh'
<1>1. \A q \in Procs : call'[q] = IF q = p THEN r ELSE call[q]
  BY DEF TypeOK
<1>2. \A q \in Procs \ {p} : call[q].answer \in Sessions => call[q].answer # token'
  BY SessionAssumptions DEF AnswersAreFresh
<1>3. \A q \in Procs \ {p} : call[q].answer \in Sessions => call[q].answer # r.replaced
  BY SessionAssumptions DEF AnswersAreFresh
<1> QED
  BY <1>1, <1>2, <1>3 DEF AnswersAreFresh

\* A step of a process that is not about to destroy, in which the token stays.
LEMMA TargetsKept ==
  ASSUME TypeOK, DestroyNamesSession, DestroyTargetsReplaced,
         NEW p \in Procs, NEW r,
         r.at = "destroy" => call[p].at = "destroy" /\ r.replaced = call[p].replaced,
         call' = [call EXCEPT ![p] = r],
         token' = token
  PROVE  DestroyNamesSession' /\ DestroyTargetsReplaced'
<1>1. \A q \in Procs : call'[q] = IF q = p THEN r ELSE call[q]
  BY DEF TypeOK
<1> QED
  BY <1>1 DEF DestroyNamesSession, DestroyTargetsReplaced, Procs

\* The common case: a task turns to a request that destroys nothing.
LEMMA CleanUpKept ==
  ASSUME TypeOK, CleanUpInv, NEW p \in Procs, NEW r,
         r.answer = "none", r.at # "destroy", r.replaced \in {token, NoSession},
         call' = [call EXCEPT ![p] = r],
         token' = token
  PROVE  CleanUpInv'
<1>1. AnswersAreFresh'
  <2>1. r.answer \notin Sessions
    BY SessionAssumptions
  <2> QED
    BY <2>1, FreshKept DEF CleanUpInv
<1>2. DestroyNamesSession' /\ DestroyTargetsReplaced'
  BY TargetsKept DEF CleanUpInv
<1> QED
  BY <1>1, <1>2 DEF CleanUpInv

LEMMA CleanUpInit == Init => TypeOK /\ CleanUpInv
<1> SUFFICES ASSUME Init PROVE CleanUpInv
  BY InitType
<1>1. \A p \in Procs : call[p].answer = "none" /\ call[p].at = "idle"
  BY DEF Init, Idle
<1> QED
  BY <1>1, SessionAssumptions
  DEF CleanUpInv, AnswersAreFresh, DestroyNamesSession, DestroyTargetsReplaced, Procs

LEMMA CleanUpStep == TypeOK /\ CleanUpInv /\ [Next]_vars => CleanUpInv'
<1> SUFFICES ASSUME TypeOK, CleanUpInv, [Next]_vars PROVE CleanUpInv'
  OBVIOUS
<1> USE DEF CleanUpInv
<1>0. /\ \A p \in Procs : call[p] \in CallState
      /\ token \in Tokens
      /\ "none" \notin Sessions /\ "ok" \notin Sessions
      /\ "denied" \notin Sessions /\ "failed" \notin Sessions
  BY SessionAssumptions DEF TypeOK
<1>1. ASSUME NEW t \in Tasks, NEW m \in Methods, StartCall(t, m) PROVE CleanUpInv'
  <2> DEFINE r == IF fresh THEN Dispatch(m, token) ELSE LoginRequest(m, "refresh")
  <2>0. t \in Procs
    BY DEF Procs
  <2>1. r.answer = "none" /\ r.replaced \in {token, NoSession} /\ r.at # "destroy"
    BY <1>0, <2>0, Continuations DEF LoginRequest
  <2>2. call' = [call EXCEPT ![t] = r] /\ token' = token
    BY <1>1 DEF StartCall
  <2> HIDE DEF r
  <2> QED
    BY <2>0, <2>1, <2>2, CleanUpKept
<1>2. ASSUME NEW t \in Tasks, TaskStep(t) PROVE CleanUpInv'
  <2> DEFINE c == call[t]
  <2>0. t \in Procs /\ c \in CallState /\ c.method \in Methods
    BY <1>0 DEF Procs, CallState
  <2>1. CASE FirstLogin(t)
    <3> DEFINE r == AfterLogin(c, c.answer)
    <3>1. c.answer \in Sessions /\ c.answer \in Tokens /\ token' = c.answer
          /\ call' = [call EXCEPT ![t] = r]
      BY <2>1 DEF FirstLogin, Tokens
    <3>2. r.answer = "none" /\ r.replaced = NoSession /\ r.at # "destroy"
      BY <3>1, <2>0, Continuations
    <3> HIDE DEF r
    <3>3. AnswersAreFresh'
      BY <3>1, <3>2, <2>0, <1>0, FreshKept
    <3>4. \A q \in Procs : call'[q] = IF q = t THEN r ELSE call[q]
      BY <3>1 DEF TypeOK
    <3>5. \A q \in Procs : call[q].replaced # token'
      BY <3>1, <2>0 DEF AnswersAreFresh
    <3> QED
      BY <3>2, <3>3, <3>4, <3>5 DEF DestroyNamesSession, DestroyTargetsReplaced, Procs
  <2>2. CASE Relogin(t)
    <3> DEFINE r == [c EXCEPT !.at = "destroy", !.sent = c.answer, !.answer = "none"]
    <3>1. c.answer \in Sessions /\ token' = c.answer /\ call' = [call EXCEPT ![t] = r]
          /\ c.replaced \notin {NoSession, c.answer}
      BY <2>2 DEF Relogin
    <3>2. r.answer = "none" /\ r.replaced = c.replaced
      BY <2>0 DEF CallState
    <3> HIDE DEF r
    <3>3. AnswersAreFresh'
      BY <3>1, <3>2, <2>0, <1>0, FreshKept
    <3>4. \A q \in Procs : call'[q] = IF q = t THEN r ELSE call[q]
      BY <3>1 DEF TypeOK
    <3>5. \A q \in Procs : call[q].replaced # token'
      BY <3>1, <2>0 DEF AnswersAreFresh
    <3> QED
      BY <3>1, <3>2, <3>3, <3>4, <3>5 DEF DestroyNamesSession, DestroyTargetsReplaced, Procs
  <2>3. CASE DestroyReturns(t)
    <3> DEFINE r == AfterLogin(c, token)
    <3>1. r.answer = "none" /\ r.replaced = NoSession /\ r.at # "destroy"
      BY <2>0, <1>0, Continuations
    <3>2. call' = [call EXCEPT ![t] = r] /\ token' = token
      BY <2>3 DEF DestroyReturns
    <3> HIDE DEF r
    <3> QED
      BY <3>1, <3>2, <2>0, CleanUpKept
  <2>4. CASE CallDenied(t)
    <3> DEFINE r == LoginRequest(c.method, "retry")
    <3>1. r.answer = "none" /\ r.replaced = token /\ r.at # "destroy"
      BY DEF LoginRequest
    <3>2. call' = [call EXCEPT ![t] = r] /\ token' = token
      BY <2>4 DEF CallDenied, client
    <3> HIDE DEF r
    <3> QED
      BY <3>1, <3>2, <2>0, CleanUpKept
  <2>5. ASSUME call' = [call EXCEPT ![t] = Idle], token' = token PROVE CleanUpInv'
    <3>1. Idle.answer = "none" /\ Idle.replaced = NoSession /\ Idle.at # "destroy"
      BY <2>0, <1>0, Continuations
    <3> QED
      BY <2>5, <3>1, <2>0, CleanUpKept
  <2>6. CASE \/ LoginRefused(t) \/ RequestRaises(t) \/ CallSucceeds(t)
             \/ RetrySucceeds(t) \/ RetryDenied(t)
    BY <2>5, <2>6
    DEF LoginRefused, RequestRaises, CallSucceeds, RetrySucceeds, RetryDenied, client
  <2> QED
    BY <1>2, <2>1, <2>2, <2>3, <2>4, <2>6 DEF TaskStep
<1>3. CASE Close
  <2> DEFINE r == [Idle EXCEPT !.at = "destroy", !.sent = token, !.replaced = token]
  <2>0. Closer \in Procs /\ Closer \notin Tasks
    BY SessionAssumptions DEF Procs
  <2>1. r.answer = "none" /\ r.replaced = token
    BY DEF Idle
  <2>2. token' = token
    BY <1>3 DEF Close
  <2>3. CASE token = NoSession
    BY <1>3, <2>2, <2>3
    DEF Close, AnswersAreFresh, DestroyNamesSession, DestroyTargetsReplaced
  <2>4. CASE token # NoSession
    <3>1. call' = [call EXCEPT ![Closer] = r]
      BY <1>3, <2>4 DEF Close
    <3> HIDE DEF r
    <3>2. AnswersAreFresh'
      BY <3>1, <2>0, <2>1, <2>2, <1>0, FreshKept
    <3>3. \A q \in Procs : call'[q] = IF q = Closer THEN r ELSE call[q]
      BY <3>1 DEF TypeOK
    <3> QED
      BY <3>2, <3>3, <2>0, <2>1, <2>2, <2>4
      DEF DestroyNamesSession, DestroyTargetsReplaced, Procs
  <2> QED
    BY <2>3, <2>4
<1>4. CASE CloseReturns
  <2>0. Closer \in Procs /\ Closer \notin Tasks
    BY SessionAssumptions DEF Procs
  <2>1. call' = [call EXCEPT ![Closer] = Idle] /\ token' = NoSession
    BY <1>4 DEF CloseReturns
  <2>2. Idle.answer = "none" /\ Idle.replaced = NoSession /\ Idle.at = "idle"
    BY DEF Idle
  <2>3. AnswersAreFresh'
    BY <2>0, <2>1, <2>2, <1>0, FreshKept
  <2>4. \A q \in Procs : call'[q] = IF q = Closer THEN Idle ELSE call[q]
    BY <2>1 DEF TypeOK
  <2> QED
    BY <2>1, <2>2, <2>3, <2>4 DEF DestroyNamesSession, DestroyTargetsReplaced, Procs
<1>5. ASSUME NEW p \in Procs, NEW a \in Answer, Answered(p, a), token' = token,
             a \in Sessions => a \in Unused
      PROVE  CleanUpInv'
  <2> DEFINE r == [call[p] EXCEPT !.answer = a]
  <2>1. r.answer = a /\ r.replaced = call[p].replaced /\ r.at = call[p].at
    BY <1>0 DEF CallState
  <2>2. call' = [call EXCEPT ![p] = r]
    BY <1>5 DEF Answered
  <2> HIDE DEF r
  <2>3. DestroyNamesSession' /\ DestroyTargetsReplaced'
    BY <2>1, <2>2, <1>5, TargetsKept
  <2>4. CASE a \notin Sessions
    BY <2>1, <2>2, <2>3, <2>4, <1>5, FreshKept
  <2>5. CASE a \in Sessions
    <3>1. /\ a # token
          /\ \A q \in Procs : a # call[q].replaced /\ a # call[q].answer
      BY <1>5, <2>5 DEF Unused
    <3>2. \A q \in Procs : call'[q] = IF q = p THEN r ELSE call[q]
      BY <2>2 DEF TypeOK
    <3>3. AnswersAreFresh'
      BY <1>5, <2>1, <3>1, <3>2 DEF AnswersAreFresh
    <3> QED
      BY <2>3, <3>3
  <2> QED
    BY <2>4, <2>5
<1>6. ASSUME NEW p \in Procs, RouterStep(p) \/ ReplyLost(p) PROVE CleanUpInv'
  <2>1. Unused \subseteq Answer /\ {"ok", "denied", "failed"} \subseteq Answer
    BY DEF Unused, Answer
  <2>2. token' = token
    BY <1>6 DEF RouterStep, RouterLogin, RouterCall, RouterDestroy, RequestLost,
                ReplyLost, client
  <2>3. \E a \in Unused \cup {"ok", "denied", "failed"} : Answered(p, a)
    BY <1>6 DEF RouterStep, RouterLogin, RouterCall, RouterDestroy, RequestLost,
                ReplyLost
  <2> QED
    BY <2>1, <2>2, <2>3, <1>0, <1>5
<1>7. ASSUME UNCHANGED <<token, call>> PROVE CleanUpInv'
  BY <1>7 DEF AnswersAreFresh, DestroyNamesSession, DestroyTargetsReplaced
<1>8. CASE Environment
  <2>1. ASSUME NEW s \in Sessions, SessionExpires(s) PROVE CleanUpInv'
    BY <2>1, <1>7 DEF SessionExpires, client
  <2>2. CASE RpcdRestart \/ TokenAges \/ BackoffEnds
    BY <2>2, <1>7 DEF RpcdRestart, TokenAges, BackoffEnds, client
  <2> QED
    BY <1>8, <1>6, <2>1, <2>2 DEF Environment
<1>9. CASE UNCHANGED vars
  BY <1>9, <1>7 DEF vars, client
<1> QED
  BY <1>1, <1>2, <1>3, <1>4, <1>6, <1>8, <1>9 DEF Next

\* The destroy request of a login never targets the session in use, whatever
\* other logins, the unload and the router do in between.
THEOREM CleanUpIsSafe == Spec => []DestroyTargetsReplaced
<1>1. TypeOK /\ CleanUpInv => DestroyTargetsReplaced
  BY DEF CleanUpInv
<1> QED
  BY <1>1, CleanUpInit, CleanUpStep, TypeStep, PTL DEF Spec

-------------------------------------------------------------------------------
(* The calls under way are counted: a call that starts has passed the gate,  *)
(* and a login that is refused ends one.                                     *)

Busy == {t \in Tasks : call[t].at # "idle"}

LEMMA BusyIsFinite == IsFiniteSet(Busy) /\ Cardinality(Busy) \in Nat
  BY SessionAssumptions, FS_Subset, FS_CardinalityType DEF Busy

\* What a step does to the number of calls under way: a step of t may add t to
\* them, one that ends the call of t removes it, and no other step adds any.
LEMMA BusyCount ==
  ASSUME TypeOK
  PROVE  /\ Cardinality(Busy) <= Cardinality(Tasks)
         /\ IsFiniteSet(Busy') /\ Cardinality(Busy') \in Nat
         /\ Busy' \subseteq Busy => Cardinality(Busy') <= Cardinality(Busy)
         /\ \A t \in Tasks :
              /\ t \notin Busy /\ Busy' \subseteq Busy \cup {t} =>
                   /\ Cardinality(Busy) + 1 <= Cardinality(Tasks)
                   /\ Cardinality(Busy') <= Cardinality(Busy) + 1
              /\ t \in Busy /\ Busy' \subseteq Busy \ {t} =>
                   Cardinality(Busy') <= Cardinality(Busy) - 1
<1>1. IsFiniteSet(Tasks) /\ Busy \subseteq Tasks /\ Busy' \subseteq Tasks
  BY SessionAssumptions DEF Busy
<1>2. \A S \in SUBSET Tasks : IsFiniteSet(S) /\ Cardinality(S) \in Nat
  BY <1>1, FS_Subset, FS_CardinalityType
<1>3. \A S, T \in SUBSET Tasks : S \subseteq T => Cardinality(S) <= Cardinality(T)
  BY <1>2, FS_Subset
<1>4. ASSUME NEW t \in Tasks, t \notin Busy, Busy' \subseteq Busy \cup {t}
      PROVE  /\ Cardinality(Busy) + 1 <= Cardinality(Tasks)
             /\ Cardinality(Busy') <= Cardinality(Busy) + 1
  <2>1. Cardinality(Busy \cup {t}) = Cardinality(Busy) + 1
    BY <1>1, <1>2, <1>4, FS_AddElement
  <2>2. Busy \cup {t} \in SUBSET Tasks
    BY <1>1
  <2> QED
    BY <2>1, <2>2, <1>1, <1>3, <1>4
<1>5. ASSUME NEW t \in Tasks, t \in Busy, Busy' \subseteq Busy \ {t}
      PROVE  Cardinality(Busy') <= Cardinality(Busy) - 1
  <2>1. Cardinality(Busy \ {t}) = Cardinality(Busy) - 1
    BY <1>1, <1>2, <1>5, FS_RemoveElement
  <2>2. Busy \ {t} \in SUBSET Tasks
    BY <1>1
  <2> QED
    BY <2>1, <2>2, <1>1, <1>3, <1>5
<1> QED
  BY <1>1, <1>2, <1>3, <1>4, <1>5

LEMMA GateInit == Init => GateBoundsFailures
<1> SUFFICES ASSUME Init PROVE GateBoundsFailures
  OBVIOUS
<1>1. Busy = {} /\ authFailures = 0
  BY DEF Init, Busy, Procs, Idle
<1>2. Cardinality(Busy) = 0 /\ Cardinality(Tasks) \in Nat
  BY <1>1, FS_EmptySet, FS_CardinalityType, SessionAssumptions
<1> QED
  BY <1>1, <1>2, SessionAssumptions DEF GateBoundsFailures, Busy

LEMMA GateStep == TypeOK /\ GateBoundsFailures /\ [Next]_vars => GateBoundsFailures'
<1> SUFFICES ASSUME TypeOK, GateBoundsFailures, [Next]_vars PROVE GateBoundsFailures'
  OBVIOUS
<1> DEFINE N == Cardinality(Busy)
<1>0. /\ authFailures \in Nat /\ MaxAuthFailures \in Nat \ {0}
      /\ N \in Nat /\ N' \in Nat /\ Cardinality(Tasks) \in Nat
      /\ authFailures + N <= MaxAuthFailures - 1 + Cardinality(Tasks)
      /\ N <= Cardinality(Tasks)
  BY SessionAssumptions, BusyIsFinite, BusyCount, FS_CardinalityType
  DEF TypeOK, GateBoundsFailures, Busy
<1>1. SUFFICES authFailures' + N' <= MaxAuthFailures - 1 + Cardinality(Tasks)
  BY DEF GateBoundsFailures, Busy
<1> HIDE DEF N
<1>2. \A p \in Procs : call[p] \in CallState
  BY DEF TypeOK
<1>3. ASSUME Busy' \subseteq Busy, authFailures' \in {authFailures, 0}
      PROVE  authFailures' + N' <= MaxAuthFailures - 1 + Cardinality(Tasks)
  <2>1. N' <= N
    BY <1>3, BusyCount DEF N
  <2> QED
    BY <2>1, <1>0, <1>3
<1>4. ASSUME NEW t \in Tasks, NEW m \in Methods, StartCall(t, m)
      PROVE  authFailures' + N' <= MaxAuthFailures - 1 + Cardinality(Tasks)
  <2>1. t \notin Busy /\ Busy' \subseteq Busy \cup {t}
    BY <1>4 DEF StartCall, Busy, TypeOK, Procs
  <2>2. N + 1 <= Cardinality(Tasks) /\ N' <= N + 1
    BY <2>1, BusyCount DEF N
  <2>3. authFailures' <= MaxAuthFailures - 1 /\ authFailures' \in Nat
    BY <1>4, <1>0 DEF StartCall
  <2> QED
    BY <2>2, <2>3, <1>0
<1>5. ASSUME NEW t \in Tasks, TaskStep(t)
      PROVE  authFailures' + N' <= MaxAuthFailures - 1 + Cardinality(Tasks)
  <2>1. CASE LoginRefused(t)
    <3>1. t \in Busy /\ Busy' \subseteq Busy \ {t}
      BY <2>1 DEF LoginRefused, Busy, TypeOK, Procs, Idle
    <3>2. N' <= N - 1
      BY <3>1, BusyCount DEF N
    <3>3. authFailures' = authFailures + 1
      BY <2>1 DEF LoginRefused
    <3> QED
      BY <3>2, <3>3, <1>0
  <2>2. CASE ~LoginRefused(t)
    <3>1. call[t].at # "idle" /\ authFailures' \in {authFailures, 0}
      BY <1>5, <2>2 DEF TaskStep, FirstLogin, Relogin, DestroyReturns, RequestRaises,
         CallSucceeds, CallDenied, RetrySucceeds, RetryDenied, ClearedBy, client
    <3>2. \A u \in Tasks \ {t} : call'[u] = call[u]
      BY <1>5, <2>2 DEF TaskStep, FirstLogin, Relogin, DestroyReturns, RequestRaises,
         CallSucceeds, CallDenied, RetrySucceeds, RetryDenied, TypeOK, Procs
    <3>3. Busy' \subseteq Busy
      BY <3>1, <3>2 DEF Busy
    <3> QED
      BY <3>1, <3>3, <1>3
  <2> QED
    BY <2>1, <2>2
<1>6. CASE Close \/ CloseReturns
  <2>1. authFailures' = authFailures /\ \A t \in Tasks : call'[t] = call[t]
    BY <1>6, SessionAssumptions DEF Close, CloseReturns, TypeOK, Procs
  <2> QED
    BY <2>1, <1>3 DEF Busy
<1>7. ASSUME NEW p \in Procs, RouterStep(p) \/ ReplyLost(p)
      PROVE  authFailures' + N' <= MaxAuthFailures - 1 + Cardinality(Tasks)
  <2>1. authFailures' = authFailures /\ \E a : Answered(p, a)
    BY <1>7 DEF RouterStep, RouterLogin, RouterCall, RouterDestroy, RequestLost, ReplyLost,
       client
  <2>2. \A t \in Tasks : call'[t].at = call[t].at
    BY <2>1, <1>2 DEF Answered, TypeOK, Procs, CallState
  <2> QED
    BY <2>1, <2>2, <1>3 DEF Busy
<1>8. ASSUME authFailures' = authFailures, call' = call
      PROVE  authFailures' + N' <= MaxAuthFailures - 1 + Cardinality(Tasks)
  BY <1>8, <1>3 DEF Busy
<1>9. CASE Environment
  BY <1>9, <1>7, <1>8
  DEF Environment, SessionExpires, RpcdRestart, TokenAges, BackoffEnds, client
<1>10. CASE UNCHANGED vars
  BY <1>10, <1>8 DEF vars, client
<1> QED
  BY <1>4, <1>5, <1>6, <1>7, <1>9, <1>10 DEF Next

\* However many tasks fail to log in at the same time, the failure counter exceeds
\* the threshold of the backoff by less than their number.
THEOREM FailuresAreBounded == Spec => []GateBoundsFailures
  BY InitType, TypeStep, GateInit, GateStep, PTL DEF Spec

--------------------------------------------------------------------------------
(* A single caller.                                                         *)

SingleCaller == \A s, t \in Tasks : s = t

\* Sessions the call c still has to hand to the client or to destroy.
Pending(c) ==
  ({c.answer} \cap Sessions)
    \cup IF c.at = "destroy" /\ c.answer = "none" THEN {c.replaced} ELSE {}

\* Nobody else moves the token between the steps of the one caller.
SoleCall(c, tok) ==
  /\ c.at = "idle" => c.answer = "none"
  /\ c.answer \in Sessions => c.at = "login"
  /\ c.at = "login" => c.replaced = tok
  /\ c.at \in {"destroy", "retry"} => c.sent = tok

SoleInv ==
  ~closing =>
    /\ call[Closer] = Idle
    /\ \A t \in Tasks : SoleCall(call[t], token)
    /\ \A s \in live : \/ s \in {token} \cup leaked
                       \/ \E t \in Tasks : s \in Pending(call[t])

\* The only task moves to r.
LEMMA SoleMove ==
  ASSUME TypeOK, SingleCaller, SoleInv, NEW t \in Tasks, NEW r,
         call' = [call EXCEPT ![t] = r],
         closing' = closing,
         ~closing => SoleCall(r, token'),
         ~closing => \A s \in live' : s \in {token'} \cup leaked' \cup Pending(r)
  PROVE  SoleInv'
<1>1. call'[t] = r /\ call'[Closer] = call[Closer]
  BY SessionAssumptions DEF TypeOK, Procs
<1>2. \A u \in Tasks : u = t
  BY DEF SingleCaller
<1> QED
  BY <1>1, <1>2 DEF SoleInv, SoleCall, Pending

LEMMA SoleInit == Init => SoleInv
<1> SUFFICES ASSUME Init PROVE SoleInv
  OBVIOUS
<1>1. Closer \in Procs /\ Tasks \subseteq Procs /\ "none" \notin Sessions
  BY SessionAssumptions DEF Procs
<1> QED
  BY <1>1 DEF Init, SoleInv, SoleCall, Idle

LEMMA SoleStep ==
  ASSUME SingleCaller
  PROVE  TypeOK /\ CleanUpInv /\ SoleInv /\ [Next]_vars => SoleInv'
<1> SUFFICES ASSUME TypeOK, CleanUpInv, SoleInv, [Next]_vars PROVE SoleInv'
  OBVIOUS
<1>0. /\ \A p \in Procs : call[p] \in CallState
      /\ token \in Tokens
      /\ live \subseteq Sessions
      /\ NoSession \notin Sessions
      /\ {"none", "ok", "denied", "failed"} \cap Sessions = {}
      /\ Tasks \subseteq Procs
      /\ Closer \in Procs \ Tasks
  BY SessionAssumptions DEF TypeOK, Procs
<1>1. ASSUME NEW t \in Tasks, ~closing
      PROVE  /\ SoleCall(call[t], token)
             /\ \A s \in live : s \in {token} \cup leaked \cup Pending(call[t])
  BY <1>1 DEF SoleInv, SingleCaller
<1>2. Idle.at = "idle" /\ Idle.answer = "none" /\ Idle.replaced = NoSession
  BY DEF Idle
<1>3. ASSUME NEW t \in Tasks, NEW m \in Methods, StartCall(t, m) PROVE SoleInv'
  <2> DEFINE r == IF fresh THEN Dispatch(m, token) ELSE LoginRequest(m, "refresh")
  <2>1. /\ r.answer = "none" /\ r.at \in {"idle", "call", "login"}
        /\ r.at = "login" => r.replaced = token
    BY <1>2 DEF Dispatch, Request, LoginRequest
  <2>2. /\ call' = [call EXCEPT ![t] = r] /\ closing' = closing /\ token' = token
        /\ live' = live /\ leaked' = leaked
        /\ call[t].at = "idle"
    BY <1>3 DEF StartCall
  <2> HIDE DEF r
  <2>3. ~closing => SoleCall(r, token')
    BY <2>1, <2>2, <1>0 DEF SoleCall
  <2>4. ~closing => \A s \in live' : s \in {token'} \cup leaked' \cup Pending(r)
    BY <2>2, <1>0, <1>1 DEF SoleCall, Pending
  <2> QED
    BY <2>2, <2>3, <2>4, SoleMove
<1>4. ASSUME NEW t \in Tasks, TaskStep(t) PROVE SoleInv'
  <2> DEFINE c == call[t]
  <2>0. t \in Procs /\ c \in CallState /\ c.method \in Methods
    BY <1>0 DEF CallState
  <2>1. CASE FirstLogin(t)
    <3> DEFINE r == AfterLogin(c, c.answer)
    <3>1. /\ c.answer \in Sessions /\ c.at = "login" /\ token' = c.answer
          /\ c.replaced \in {NoSession, c.answer}
          /\ call' = [call EXCEPT ![t] = r] /\ closing' = closing
          /\ live' = live /\ leaked' = leaked
      BY <2>1 DEF FirstLogin
    <3>2. /\ r.answer = "none" /\ r.at \in {"idle", "call", "retry"}
          /\ r.at = "retry" => r.sent = token'
      BY <3>1, <1>2 DEF AfterLogin, Dispatch, Request
    <3> HIDE DEF r
    <3>3. ~closing => SoleCall(r, token')
      BY <3>1, <3>2, <1>0 DEF SoleCall
    <3>4. ~closing => token = NoSession
      <4>1. c.answer # c.replaced
        BY <3>1, <2>0 DEF CleanUpInv, AnswersAreFresh
      <4> QED
        BY <4>1, <3>1, <1>1 DEF SoleCall
    <3>5. ~closing => \A s \in live' : s \in {token'} \cup leaked' \cup Pending(r)
      BY <3>1, <3>4, <1>0, <1>1 DEF Pending
    <3> QED
      BY <3>1, <3>3, <3>5, SoleMove
  <2>2. CASE Relogin(t)
    <3> DEFINE r == [c EXCEPT !.at = "destroy", !.sent = c.answer, !.answer = "none"]
    <3>1. /\ c.answer \in Sessions /\ c.at = "login" /\ token' = c.answer
          /\ call' = [call EXCEPT ![t] = r] /\ closing' = closing
          /\ live' = live /\ leaked' = leaked
      BY <2>2 DEF Relogin
    <3>2. /\ r.answer = "none" /\ r.at = "destroy" /\ r.sent = token'
          /\ r.replaced = c.replaced
      BY <3>1, <2>0 DEF CallState
    <3> HIDE DEF r
    <3>3. ~closing => SoleCall(r, token')
      BY <3>1, <3>2, <1>0 DEF SoleCall
    <3>4. ~closing => \A s \in live' : s \in {token'} \cup leaked' \cup Pending(r)
      BY <3>1, <3>2, <1>0, <1>1 DEF Pending, SoleCall
    <3> QED
      BY <3>1, <3>3, <3>4, SoleMove
  <2>3. CASE DestroyReturns(t)
    <3> DEFINE r == AfterLogin(c, token)
    <3>1. /\ c.answer # "none" /\ c.at = "destroy" /\ token' = token
          /\ call' = [call EXCEPT ![t] = r] /\ closing' = closing
          /\ live' = live /\ leaked' = leaked
      BY <2>3 DEF DestroyReturns
    <3>2. /\ r.answer = "none" /\ r.at \in {"idle", "call", "retry"}
          /\ r.at = "retry" => r.sent = token
      BY <1>2 DEF AfterLogin, Dispatch, Request
    <3> HIDE DEF r
    <3>3. ~closing => SoleCall(r, token')
      BY <3>1, <3>2, <1>0 DEF SoleCall
    <3>4. ~closing => \A s \in live' : s \in {token'} \cup leaked' \cup Pending(r)
      BY <3>1, <1>0, <1>1 DEF Pending, SoleCall
    <3> QED
      BY <3>1, <3>3, <3>4, SoleMove
  <2>4. CASE CallDenied(t)
    <3> DEFINE r == LoginRequest(c.method, "retry")
    <3>1. /\ c.at = "call" /\ c.answer = "denied" /\ token' = token
          /\ call' = [call EXCEPT ![t] = r] /\ closing' = closing
          /\ live' = live /\ leaked' = leaked
      BY <2>4 DEF CallDenied, client
    <3>2. r.answer = "none" /\ r.at = "login" /\ r.replaced = token
      BY DEF LoginRequest
    <3> HIDE DEF r
    <3>3. ~closing => SoleCall(r, token')
      BY <3>1, <3>2, <1>0 DEF SoleCall
    <3>4. ~closing => \A s \in live' : s \in {token'} \cup leaked' \cup Pending(r)
      BY <3>1, <1>0, <1>1 DEF Pending
    <3> QED
      BY <3>1, <3>3, <3>4, SoleMove
  <2>5. CASE \/ LoginRefused(t) \/ RequestRaises(t) \/ CallSucceeds(t)
             \/ RetrySucceeds(t) \/ RetryDenied(t)
    <3>1. /\ c.answer \in {"ok", "denied", "failed"} /\ c.at # "destroy"
          /\ call' = [call EXCEPT ![t] = Idle] /\ closing' = closing
          /\ token' = token /\ live' = live /\ leaked' = leaked
      BY <2>5 DEF LoginRefused, RequestRaises, CallSucceeds, RetrySucceeds,
                  RetryDenied, client
    <3>2. ~closing => SoleCall(Idle, token')
      BY <1>0, <1>2 DEF SoleCall, Idle
    <3>3. ~closing => \A s \in live' : s \in {token'} \cup leaked' \cup Pending(Idle)
      BY <3>1, <1>0, <1>1 DEF Pending
    <3> QED
      BY <3>1, <3>2, <3>3, SoleMove
  <2> QED
    BY <1>4, <2>1, <2>2, <2>3, <2>4, <2>5 DEF TaskStep
<1>5. CASE Close
  BY <1>5 DEF Close, SoleInv
<1>6. CASE CloseReturns
  \* Only after Close: until then the closer has no request.
  <2>1. closing /\ closing' = closing
    BY <1>6, <1>2 DEF CloseReturns, SoleInv
  <2> QED
    BY <2>1 DEF SoleInv
<1>7. ASSUME NEW p \in Procs, NEW a \in Answer, Answered(p, a), UNCHANGED client,
             a \in Sessions => call[p].at = "login",
             ~closing /\ p \in Tasks =>
               \A s \in live' :
                 \/ s \in {token} \cup leaked' \cup Pending([call[p] EXCEPT !.answer = a]),
             call[p].at # "idle"
      PROVE  SoleInv'
  <2> DEFINE r == [call[p] EXCEPT !.answer = a]
  <2>1. /\ call' = [call EXCEPT ![p] = r]
        /\ closing' = closing /\ token' = token
    BY <1>7 DEF Answered, client
  <2>2. CASE closing
    BY <2>1, <2>2 DEF SoleInv
  <2>3. CASE ~closing
    <3>1. p \in Tasks
      BY <2>3, <1>7, <1>2 DEF SoleInv, Procs
    <3>2. /\ r.answer = a /\ r.at = call[p].at /\ r.sent = call[p].sent
          /\ r.replaced = call[p].replaced
      BY <1>0 DEF CallState
    <3>3. SoleCall(r, token')
      BY <3>1, <3>2, <2>1, <2>3, <1>1, <1>7 DEF SoleCall
    <3>4. \A s \in live' : s \in {token'} \cup leaked' \cup Pending(r)
      BY <3>1, <2>1, <2>3, <1>7
    <3> HIDE DEF r
    <3> QED
      BY <3>1, <3>3, <3>4, <2>1, <2>3, SoleMove
  <2> QED
    BY <2>2, <2>3
<1>8. ASSUME NEW p \in Procs, RouterStep(p) \/ ReplyLost(p) PROVE SoleInv'
  <2> DEFINE r(a) == [call[p] EXCEPT !.answer = a]
  <2>0. \A a : /\ r(a).answer = a /\ r(a).at = call[p].at
               /\ r(a).replaced = call[p].replaced
    BY <1>0 DEF CallState
  <2>1. /\ Unused \subseteq Sessions \ {NoSession}
        /\ Sessions \cup {"ok", "denied", "failed"} \subseteq Answer
    BY <1>0 DEF Unused, Answer
  <2>2. UNCHANGED client
    BY <1>8 DEF RouterStep, RouterLogin, RouterCall, RouterDestroy, RequestLost, ReplyLost
  <2>3. CASE closing
    BY <2>2, <2>3 DEF SoleInv, client
  <2>4. CASE ~closing
    <3>1. call[p].at # "idle" /\ p \in Tasks
      BY <1>8, <2>4, <1>0, <1>1, <1>2
      DEF RouterStep, RouterLogin, RouterCall, RouterDestroy, RequestLost, ReplyLost,
          Awaiting, SoleInv, SoleCall, Procs
    <3>2. SoleCall(call[p], token)
          /\ \A s \in live : s \in {token} \cup leaked \cup Pending(call[p])
      BY <3>1, <2>4, <1>1
    <3>3. ASSUME NEW a \in Answer, Answered(p, a), a \in Sessions => call[p].at = "login",
                 \A s \in live' : s \in {token} \cup leaked' \cup Pending(r(a))
          PROVE  SoleInv'
      BY <3>1, <3>3, <2>2, <1>7
    <3> HIDE DEF r
    <3>4. CASE RouterLogin(p)
      <4>1. /\ call[p].at = "login" /\ call[p].answer = "none" /\ leaked' = leaked
        BY <3>4 DEF RouterLogin, Awaiting
      <4>2. ASSUME NEW a \in Unused, Answered(p, a), live' = live \cup {a} PROVE SoleInv'
        <5>1. \A s \in live' : s \in {token} \cup leaked' \cup Pending(r(a))
          BY <3>2, <4>1, <4>2, <2>0, <2>1, <1>0 DEF Pending
        <5> QED
          BY <5>1, <4>1, <4>2, <2>1, <3>3
      <4>3. ASSUME Answered(p, "denied"), live' = live PROVE SoleInv'
        <5>1. \A s \in live' : s \in {token} \cup leaked' \cup Pending(r("denied"))
          BY <3>2, <4>1, <4>3, <2>0, <1>0 DEF Pending
        <5> QED
          BY <5>1, <4>1, <4>3, <2>1, <3>3
      <4> QED
        BY <3>4, <4>2, <4>3 DEF RouterLogin
    <3>5. ASSUME NEW a \in {"ok", "denied", "failed"}, Answered(p, a),
                 \A s \in live' : s \in {token} \cup leaked' \cup Pending(r(a))
          PROVE  SoleInv'
      BY <3>5, <3>3, <2>1, <1>0
    <3>6. CASE RouterCall(p)
      <4>1. call[p].at # "destroy" /\ call[p].answer = "none"
            /\ live' = live /\ leaked' = leaked
        BY <3>6 DEF RouterCall, Awaiting
      <4>2. \A a : \A s \in live' : s \in {token} \cup leaked' \cup Pending(r(a))
        BY <4>1, <3>2, <2>0, <1>0 DEF Pending
      <4> QED
        BY <3>6, <4>2, <3>5 DEF RouterCall
    <3>7. CASE RouterDestroy(p)
      <4>1. call[p].at = "destroy" /\ call[p].answer = "none"
        BY <3>7 DEF RouterDestroy, Awaiting
      <4>2. \A s \in live' : s \in {token} \cup leaked'
        BY <4>1, <3>2, <3>7, <1>0 DEF RouterDestroy, Undestroyed, Pending
      <4> QED
        BY <3>7, <4>2, <3>5 DEF RouterDestroy
    <3>8. CASE RequestLost(p)
      <4>1. call[p].answer = "none" /\ live' = live
            /\ leaked' = leaked \cup (Undestroyed(p) \cap live)
        BY <3>8 DEF RequestLost, Awaiting
      <4>2. \A s \in live' : s \in {token} \cup leaked'
        BY <4>1, <3>2, <1>0 DEF Undestroyed, Pending
      <4> QED
        BY <3>8, <4>2, <3>5 DEF RequestLost
    <3>9. CASE ReplyLost(p)
      <4>1. call[p].answer # "none" /\ live' = live
            /\ leaked' = leaked \cup ({call[p].answer} \cap live)
        BY <3>9, <1>0 DEF ReplyLost
      <4>2. \A s \in live' : s \in {token} \cup leaked'
        BY <4>1, <3>2 DEF Pending
      <4> QED
        BY <3>9, <4>2, <3>5 DEF ReplyLost
    <3> QED
      BY <1>8, <3>4, <3>6, <3>7, <3>8, <3>9 DEF RouterStep
  <2> QED
    BY <2>3, <2>4
<1>9. ASSUME UNCHANGED <<token, closing, call>>,
             live' \subseteq live,
             leaked \cap live' \subseteq leaked'
      PROVE  SoleInv'
  BY <1>9 DEF SoleInv
<1>10. CASE Environment
  <2>1. ASSUME NEW s \in Sessions, SessionExpires(s) PROVE SoleInv'
    BY <2>1, <1>9 DEF SessionExpires, client
  <2>2. CASE RpcdRestart \/ TokenAges \/ BackoffEnds
    BY <2>2, <1>9 DEF RpcdRestart, TokenAges, BackoffEnds, client
  <2> QED
    BY <1>10, <1>8, <2>1, <2>2 DEF Environment
<1>11. CASE UNCHANGED vars
  BY <1>11, <1>9 DEF vars, client
<1> QED
  BY <1>3, <1>4, <1>5, <1>6, <1>8, <1>10, <1>11 DEF Next

\* With one caller, whatever is lost on the network: once no request is open
\* the router holds nothing but the current session and the lost ones.
THEOREM SingleCallerLeavesNoOrphan ==
  ASSUME SingleCaller PROVE Spec => []NoOrphan
<1>1. TypeOK /\ SoleInv => NoOrphan
  <2>1. Tasks \subseteq Procs /\ "none" \notin Sessions
    BY SessionAssumptions DEF Procs
  <2>2. ASSUME TypeOK, SoleInv, Quiet, ~closing, NEW t \in Tasks, NEW s \in live
        PROVE  s \notin Pending(call[t])
    BY <2>1, <2>2 DEF SoleInv, SoleCall, Pending, Quiet
  <2> QED
    BY <2>2 DEF SoleInv, NoOrphan
<1> QED
  BY <1>1, InitType, TypeStep, CleanUpInit, CleanUpStep, SoleInit, SoleStep, PTL DEF Spec

\* A session just obtained is known to rpcd until the call that obtained it has
\* been repeated, so a repetition is denied by the ACL and by nothing else.
GenuineCall(c, tok, known) ==
  /\ c.answer \in Sessions => c.answer \in known
  /\ c.at \in {"destroy", "retry"} => tok \in known
  /\ c.at = "retry" /\ c.answer = "denied" => c.method \notin Permitted

GenuineInv ==
  ~closing => /\ aclBlocked \cap Permitted = {}
              /\ \A t \in Tasks : GenuineCall(call[t], token, live)

LEMMA GenuineInit == Init => GenuineInv
<1>1. Tasks \subseteq Procs /\ "none" \notin Sessions
  BY SessionAssumptions DEF Procs
<1> QED
  BY <1>1 DEF Init, GenuineInv, GenuineCall, Idle

LEMMA GenuineMove ==
  ASSUME TypeOK, SingleCaller, NEW t \in Tasks, NEW r,
         call' = [call EXCEPT ![t] = r],
         ~closing' => aclBlocked' \cap Permitted = {},
         ~closing' => GenuineCall(r, token', live')
  PROVE  GenuineInv'
<1>1. call'[t] = r /\ \A u \in Tasks : u = t
  BY DEF TypeOK, Procs, SingleCaller
<1> QED
  BY <1>1 DEF GenuineInv

LEMMA GenuineStep ==
  ASSUME SingleCaller, ~MayRestart
  PROVE  TypeOK /\ CleanUpInv /\ SoleInv /\ GenuineInv /\ [Next]_vars => GenuineInv'
<1> SUFFICES ASSUME TypeOK, CleanUpInv, SoleInv, GenuineInv, [Next]_vars
             PROVE  GenuineInv'
  OBVIOUS
<1>0. /\ \A p \in Procs : call[p] \in CallState
      /\ {"none", "ok", "denied", "failed"} \cap Sessions = {}
      /\ Tasks \subseteq Procs
  BY SessionAssumptions DEF TypeOK, Procs
<1>1. Idle.at = "idle" /\ Idle.answer = "none"
  BY DEF Idle
<1>2. ASSUME NEW t \in Tasks, NEW r, call' = [call EXCEPT ![t] = r],
             r.answer = "none", r.at \notin {"destroy", "retry"},
             closing' = closing, aclBlocked' = aclBlocked
      PROVE  GenuineInv'
  <2>1. GenuineCall(r, token', live')
    BY <1>0, <1>2 DEF GenuineCall
  <2> QED
    BY <1>2, <2>1, GenuineMove DEF GenuineInv
<1>3. ASSUME NEW t \in Tasks, NEW m \in Methods, StartCall(t, m) PROVE GenuineInv'
  <2> DEFINE r == IF fresh THEN Dispatch(m, token) ELSE LoginRequest(m, "refresh")
  <2>1. r.answer = "none" /\ r.at \notin {"destroy", "retry"}
    BY <1>1 DEF Dispatch, Request, LoginRequest
  <2>2. call' = [call EXCEPT ![t] = r] /\ closing' = closing /\ aclBlocked' = aclBlocked
    BY <1>3 DEF StartCall
  <2> HIDE DEF r
  <2> QED
    BY <2>1, <2>2, <1>2
<1>4. ASSUME NEW t \in Tasks, TaskStep(t) PROVE GenuineInv'
  <2> DEFINE c == call[t]
  <2>0. /\ t \in Procs /\ c \in CallState
        /\ ~closing => GenuineCall(c, token, live) /\ aclBlocked \cap Permitted = {}
    BY <1>0 DEF GenuineInv
  <2>1. ASSUME NEW r, call' = [call EXCEPT ![t] = r], r.answer = "none",
               UNCHANGED <<closing, aclBlocked, live>>,
               ~closing => token' \in live
        PROVE  GenuineInv'
    <3>1. ~closing => GenuineCall(r, token', live')
      BY <2>1, <1>0 DEF GenuineCall
    <3> QED
      BY <2>0, <2>1, <3>1, GenuineMove
  <2>2. CASE FirstLogin(t)
    <3> DEFINE r == AfterLogin(c, c.answer)
    <3>1. /\ call' = [call EXCEPT ![t] = r] /\ UNCHANGED <<closing, aclBlocked, live>>
          /\ c.answer \in Sessions /\ token' = c.answer
      BY <2>2 DEF FirstLogin
    <3>2. r.answer = "none"
      BY <1>1 DEF AfterLogin, Dispatch, Request
    <3> HIDE DEF r
    <3> QED
      BY <3>1, <3>2, <2>0, <2>1 DEF GenuineCall
  <2>3. CASE Relogin(t)
    <3> DEFINE r == [c EXCEPT !.at = "destroy", !.sent = c.answer, !.answer = "none"]
    <3>1. /\ call' = [call EXCEPT ![t] = r] /\ UNCHANGED <<closing, aclBlocked, live>>
          /\ c.answer \in Sessions /\ token' = c.answer
      BY <2>3 DEF Relogin
    <3>2. r.answer = "none"
      BY <2>0 DEF CallState
    <3> HIDE DEF r
    <3> QED
      BY <3>1, <3>2, <2>0, <2>1 DEF GenuineCall
  <2>4. CASE DestroyReturns(t)
    <3> DEFINE r == AfterLogin(c, token)
    <3>1. /\ call' = [call EXCEPT ![t] = r] /\ UNCHANGED <<token, closing, aclBlocked, live>>
          /\ c.at = "destroy"
      BY <2>4 DEF DestroyReturns
    <3>2. r.answer = "none"
      BY <1>1 DEF AfterLogin, Dispatch, Request
    <3> HIDE DEF r
    <3> QED
      BY <3>1, <3>2, <2>0, <2>1 DEF GenuineCall
  <2>5. CASE CallDenied(t)
    <3> DEFINE r == LoginRequest(c.method, "retry")
    <3>1. call' = [call EXCEPT ![t] = r] /\ UNCHANGED <<closing, aclBlocked>>
      BY <2>5 DEF CallDenied, client
    <3>2. r.answer = "none" /\ r.at \notin {"destroy", "retry"}
      BY DEF LoginRequest
    <3> HIDE DEF r
    <3> QED
      BY <3>1, <3>2, <1>2
  <2>6. CASE LoginRefused(t) \/ RequestRaises(t) \/ CallSucceeds(t) \/ RetrySucceeds(t)
    <3>1. call' = [call EXCEPT ![t] = Idle] /\ UNCHANGED <<closing, aclBlocked>>
      BY <2>6 DEF LoginRefused, RequestRaises, CallSucceeds, RetrySucceeds, client
    <3> QED
      BY <3>1, <1>1, <1>2
  <2>7. CASE RetryDenied(t)
    <3>1. /\ c.at = "retry" /\ c.answer = "denied" /\ closing' = closing
          /\ aclBlocked' = aclBlocked \cup {c.method}
          /\ call' = [call EXCEPT ![t] = Idle]
      BY <2>7 DEF RetryDenied
    <3>2. ~closing => aclBlocked' \cap Permitted = {}
      BY <3>1, <2>0 DEF GenuineCall
    <3>3. GenuineCall(Idle, token', live')
      BY <1>0, <1>1 DEF GenuineCall
    <3> QED
      BY <3>1, <3>2, <3>3, GenuineMove
  <2> QED
    BY <1>4, <2>2, <2>3, <2>4, <2>5, <2>6, <2>7 DEF TaskStep
<1>5. CASE Close
  BY <1>5 DEF Close, GenuineInv
<1>6. CASE CloseReturns
  <2>1. closing /\ closing' = closing
    BY <1>6, <1>1 DEF CloseReturns, SoleInv
  <2> QED
    BY <2>1 DEF GenuineInv
<1>7. ASSUME NEW p \in Procs, RouterStep(p) \/ ReplyLost(p) PROVE GenuineInv'
  <2>0. UNCHANGED client
    BY <1>7 DEF RouterStep, RouterLogin, RouterCall, RouterDestroy, RequestLost, ReplyLost
  <2>1. CASE closing
    BY <2>0, <2>1 DEF GenuineInv, client
  <2>2. CASE ~closing
    <3> DEFINE c == call[p]
    <3> DEFINE r(a) == [c EXCEPT !.answer = a]
    <3>1. p \in Tasks
      BY <1>7, <2>2, <1>0, <1>1
      DEF RouterStep, RouterLogin, RouterCall, RouterDestroy, RequestLost, ReplyLost,
          Awaiting, SoleInv, Procs
    <3>2. /\ c \in CallState /\ GenuineCall(c, token, live)
          /\ aclBlocked \cap Permitted = {} /\ SoleCall(c, token)
      BY <3>1, <2>2, <1>0 DEF GenuineInv, SoleInv
    <3>3. \A a : /\ r(a).answer = a /\ r(a).at = c.at /\ r(a).method = c.method
      BY <3>2 DEF CallState
    <3>4. ASSUME NEW a, Answered(p, a),
                 a \in Sessions => a \in live',
                 c.at \in {"destroy", "retry"} => token \in live',
                 c.at = "retry" /\ a = "denied" => c.method \notin Permitted
          PROVE  GenuineInv'
      <4>1. call' = [call EXCEPT ![p] = r(a)]
        BY <3>4 DEF Answered
      <4>2. GenuineCall(r(a), token', live')
        BY <3>3, <3>4, <2>0 DEF GenuineCall, client
      <4> HIDE DEF r
      <4> QED
        BY <4>1, <4>2, <3>1, <3>2, <2>0, GenuineMove DEF client
    <3> HIDE DEF r
    <3>5. CASE RouterLogin(p)
      <4>1. c.at = "login"
        BY <3>5 DEF RouterLogin, Awaiting
      <4> QED
        BY <3>5, <4>1, <3>4, <1>0 DEF RouterLogin
    <3>6. CASE RouterCall(p)
      <4>1. live' = live
        BY <3>6 DEF RouterCall
      <4>2. c.at = "retry" => c.sent \in live
        BY <3>2 DEF GenuineCall, SoleCall
      <4>3. c.at = "retry" \/ c.at = "call"
        BY <3>6 DEF RouterCall, Awaiting
      <4>4. Answered(p, IF c.sent \in live /\ c.method \in Permitted THEN "ok" ELSE "denied")
        BY <3>6 DEF RouterCall
      <4>5. CASE c.sent \in live /\ c.method \in Permitted
        BY <4>1, <4>2, <4>3, <4>4, <4>5, <3>2, <3>4, <1>0 DEF GenuineCall
      <4>6. CASE ~(c.sent \in live /\ c.method \in Permitted)
        BY <4>1, <4>2, <4>3, <4>4, <4>6, <3>2, <3>4, <1>0 DEF GenuineCall
      <4> QED
        BY <4>5, <4>6
    <3>7. CASE RouterDestroy(p)
      <4>1. c.at = "destroy" /\ c.replaced # token
        BY <3>1, <3>7 DEF RouterDestroy, Awaiting, CleanUpInv, DestroyTargetsReplaced
      <4>2. token \in live'
        BY <4>1, <3>2, <3>7 DEF RouterDestroy, GenuineCall
      <4>3. \E a \in {"ok", "denied"} : Answered(p, a)
        BY <3>7 DEF RouterDestroy
      <4> QED
        BY <4>1, <4>2, <4>3, <3>4, <1>0
    <3>8. CASE RequestLost(p) \/ ReplyLost(p)
      <4>1. live' = live /\ Answered(p, "failed")
        BY <3>8 DEF RequestLost, ReplyLost
      <4> QED
        BY <4>1, <3>2, <3>4, <1>0 DEF GenuineCall
    <3> QED
      BY <1>7, <3>5, <3>6, <3>7, <3>8 DEF RouterStep
  <2> QED
    BY <2>1, <2>2
<1>8. ASSUME NEW s \in Sessions, SessionExpires(s) PROVE GenuineInv'
  <2>1. UNCHANGED client /\ call' = call /\ live' = live \ {s}
    BY <1>8 DEF SessionExpires
  <2>2. ASSUME ~closing, NEW t \in Tasks PROVE GenuineCall(call[t], token, live')
    BY <1>8, <2>1, <2>2, <1>0
    DEF SessionExpires, Settled, GenuineInv, GenuineCall, SoleInv, SoleCall
  <2> QED
    BY <2>1, <2>2 DEF GenuineInv, client
<1>9. ASSUME UNCHANGED <<token, aclBlocked, closing, call, live>> PROVE GenuineInv'
  BY <1>9 DEF GenuineInv
<1>10. CASE Environment
  <2>1. CASE TokenAges \/ BackoffEnds
    BY <2>1, <1>9 DEF TokenAges, BackoffEnds
  <2>2. CASE RpcdRestart
    <3>1. /\ UNCHANGED client /\ call' = call /\ live' = {}
          /\ \A s \in live : Settled(s)
      BY <2>2 DEF RpcdRestart
    <3>2. ASSUME ~closing, NEW t \in Tasks PROVE GenuineCall(call[t], token, live')
      BY <3>1, <3>2, <1>0 DEF Settled, GenuineInv, GenuineCall, SoleInv, SoleCall
    <3> QED
      BY <3>1, <3>2 DEF GenuineInv, client
  <2> QED
    BY <1>10, <1>7, <1>8, <2>1, <2>2 DEF Environment
<1>11. CASE UNCHANGED vars
  BY <1>11, <1>9 DEF vars, client
<1> QED
  BY <1>3, <1>4, <1>5, <1>6, <1>7, <1>10, <1>11 DEF Next

\* With one caller and no restart of rpcd in the seconds between a re-login and
\* the repeated call, the cache of blocked methods holds real restrictions only.
THEOREM SingleCallerBlocksGenuinely ==
  ASSUME SingleCaller, ~MayRestart PROVE Spec => []BlockedIsGenuine
<1>1. GenuineInv => BlockedIsGenuine
  BY DEF GenuineInv, BlockedIsGenuine
<1> QED
  BY <1>1, InitType, TypeStep, CleanUpInit, CleanUpStep, SoleInit, SoleStep,
     GenuineInit, GenuineStep, PTL DEF Spec
================================================================================
