------------------------ MODULE MetabaseClientProofs ------------------------
(* Proofs about MetabaseClient, for every value of its constants.          *)
EXTENDS MetabaseClient, FiniteSetTheorems, TLAPS

-----------------------------------------------------------------------------
(* The inductive invariant.  A query is refused at most twice because a    *)
(* refused query that goes on has spent its refresh; nobody logs in over a *)
(* cached session because the one who logs in holds the lock, and only a   *)
(* login caches one.                                                       *)

RefusalInv ==
    \A k \in Task : query[k].at \in Running =>
        /\ query[k].allow => query[k].refused = 0
        /\ query[k].refused <= 1

ErrorInv == \A k \in Task : query[k].at = "failed" => query[k].error \in Error

IdleInv ==
    \A k \in Task : call[ToolOf[k]] = "idle" => query[k].at = "none" /\ query[k].refused = 0

ClientInv ==
    /\ TypeOK /\ RefusalInv /\ ErrorInv /\ IdleInv
    /\ LockAccounted /\ NoNeedlessLogin /\ NoStrayQuery

LEMMA ClientInit == Init => ClientInv
<1> SUFFICES ASSUME Init PROVE ClientInv
  OBVIOUS
<1>1. TypeOK
  BY BoundsAssumption DEF Init, TypeOK, QueryState, Attempts
<1>2. RefusalInv /\ ErrorInv /\ IdleInv /\ LockAccounted /\ NoNeedlessLogin /\ NoStrayQuery
  BY NoneAssumption
  DEF Init, RefusalInv, ErrorInv, IdleInv, LockAccounted, NoNeedlessLogin, NoStrayQuery, Running
<1> QED
  BY <1>1, <1>2 DEF ClientInv

LEMMA QueryFields ==
    ASSUME ClientInv, NEW k \in Task
    PROVE  /\ query[k] \in QueryState
           /\ query[k].attempt \in 0..2 /\ query[k].refused \in 0..2
           /\ query[k].used \in Nat /\ query[k].allow \in BOOLEAN
  BY DEF ClientInv, TypeOK, QueryState, Attempts

\* One step per action; under it the type, what is known of refusals and
\* errors, and the three properties.
LEMMA ClientNext == ClientInv /\ [Next]_vars => ClientInv'
<1> SUFFICES ASSUME ClientInv, [Next]_vars PROVE ClientInv'
  OBVIOUS
<1> USE DEF ClientInv
<1>0. CASE UNCHANGED vars
  BY <1>0 DEF vars, TypeOK, RefusalInv, ErrorInv, IdleInv, LockAccounted, NoNeedlessLogin, NoStrayQuery
<1>1. ASSUME NEW k \in Task, Send(k)
      PROVE  ClientInv'
  <2>1. TypeOK'
    BY <1>1, QueryFields DEF Send, TypeOK, QueryState, Running
  <2>2. RefusalInv' /\ ErrorInv' /\ IdleInv'
    BY <1>1 DEF Send, At, TypeOK, QueryState, RefusalInv, ErrorInv, IdleInv, Running
  <2>3. LockAccounted' /\ NoNeedlessLogin' /\ NoStrayQuery'
    BY <1>1 DEF Send, At, TypeOK, LockAccounted, NoNeedlessLogin, NoStrayQuery, Returned, Error
  <2> QED
    BY <2>1, <2>2, <2>3
<1>2. ASSUME NEW k \in Task, WaitForLock(k)
      PROVE  ClientInv'
  <2>1. TypeOK'
    BY <1>2, QueryFields DEF WaitForLock, Goto, TypeOK, QueryState, Running
  <2>2. RefusalInv' /\ ErrorInv' /\ IdleInv'
    BY <1>2 DEF WaitForLock, Goto, At, TypeOK, QueryState, RefusalInv, ErrorInv, IdleInv, Running
  <2>3. LockAccounted' /\ NoNeedlessLogin' /\ NoStrayQuery'
    BY <1>2 DEF WaitForLock, Goto, At, TypeOK, LockAccounted, NoNeedlessLogin, NoStrayQuery,
       Returned, Error
  <2> QED
    BY <2>1, <2>2, <2>3
<1>3. ASSUME NEW k \in Task, Login(k)
      PROVE  ClientInv'
  <2>1. TypeOK'
    BY <1>3, QueryFields DEF Login, Goto, TypeOK, QueryState, Running
  <2>2. RefusalInv' /\ ErrorInv' /\ IdleInv'
    BY <1>3 DEF Login, MustLogin, Goto, At, TypeOK, QueryState, RefusalInv, ErrorInv, IdleInv, Running
  <2>3. LockAccounted' /\ NoNeedlessLogin'
    BY <1>3, NoneAssumption DEF Login, MustLogin, Goto, TypeOK, LockAccounted, NoNeedlessLogin
  <2>4. NoStrayQuery'
    BY <1>3 DEF Login, MustLogin, Goto, At, TypeOK, NoStrayQuery, Returned, Error
  <2> QED
    BY <2>1, <2>2, <2>3, <2>4
<1>4. ASSUME NEW k \in Task, LoginOk(k)
      PROVE  ClientInv'
  <2>1. TypeOK'
    <3>1. logins' \in Nat /\ token' \in Nat /\ token' <= logins' /\ expired <= logins'
      BY <1>4 DEF LoginOk, TypeOK
    <3>2. query' \in [Task -> QueryState]
      <4>1. PICK n \in Nat : n = logins'
        BY <3>1
      <4>2. [query[k] EXCEPT !.at = "sent", !.used = n] \in QueryState
        BY QueryFields DEF QueryState, Running
      <4>3. query' = [query EXCEPT ![k] = [query[k] EXCEPT !.at = "sent", !.used = n]]
        BY <1>4, <4>1 DEF LoginOk, TypeOK
      <4> QED
        BY <4>2, <4>3 DEF TypeOK
    <3> QED
      BY <1>4, <3>1, <3>2 DEF LoginOk, TypeOK
  <2>2. RefusalInv' /\ ErrorInv' /\ IdleInv'
    BY <1>4 DEF LoginOk, At, TypeOK, QueryState, RefusalInv, ErrorInv, IdleInv, Running
  <2>3. \A j \in Task : query'[j].at # "login"
    BY <1>4 DEF LoginOk, At, TypeOK, LockAccounted
  <2>4. LockAccounted' /\ NoNeedlessLogin'
    BY <1>4, <2>3, NoneAssumption DEF LoginOk, LockAccounted, NoNeedlessLogin
  <2>5. NoStrayQuery'
    BY <1>4 DEF LoginOk, At, TypeOK, NoStrayQuery, Returned, Error
  <2> QED
    BY <2>1, <2>2, <2>4, <2>5
<1>5. ASSUME NEW k \in Task, LoginFails(k)
      PROVE  ClientInv'
  <2>1. TypeOK'
    BY <1>5, QueryFields DEF LoginFails, TypeOK, QueryState, Error
  <2>2. RefusalInv' /\ ErrorInv' /\ IdleInv'
    BY <1>5 DEF LoginFails, At, TypeOK, QueryState, RefusalInv, ErrorInv, IdleInv, Running, Error
  <2>3. LockAccounted' /\ NoNeedlessLogin'
    BY <1>5, NoneAssumption DEF LoginFails, At, TypeOK, LockAccounted, NoNeedlessLogin
  <2>4. NoStrayQuery'
    BY <1>5 DEF LoginFails, At, TypeOK, NoStrayQuery, Running
  <2> QED
    BY <2>1, <2>2, <2>3, <2>4
<1>6. ASSUME NEW k \in Task, Unauthorized(k)
      PROVE  ClientInv'
  <2>1. /\ query[k].at = "sent" /\ call[ToolOf[k]] = "running"
        /\ query[k].refused \in 0..1
    BY <1>6, QueryFields DEF Unauthorized, At, RefusalInv, Running
  <2>2. PICK s \in QueryState :
           /\ query' = [query EXCEPT ![k] = s]
           /\ s.at = "loop" \/ (s.at = "failed" /\ s.error \in Error)
           /\ s.allow = FALSE
           /\ s.at = "loop" => s.refused = 1
    <3> DEFINE q == query[k]
               at == IF Again(k) THEN "loop" ELSE "failed"
               attempt == IF Again(k) THEN q.attempt + 1 ELSE q.attempt
               error == IF Again(k) THEN q.error ELSE "not_recovered"
               s == [q EXCEPT !.at = at, !.attempt = attempt, !.error = error,
                              !.allow = FALSE, !.used = 0, !.refused = q.refused + 1]
    <3>1. /\ at \in {"loop", "failed"} /\ attempt \in 0..2
          /\ error \in Error \cup {None} /\ q.refused + 1 \in 0..2
      BY <2>1, QueryFields DEF QueryState, Again, LastAttempt, Attempts, Error
    <3>2. query' = [query EXCEPT ![k] = s]
      BY <1>6 DEF Unauthorized
    <3>3. at = "failed" => error \in Error
      BY DEF Error
    <3>4. at = "loop" => q.refused + 1 = 1
      BY <2>1 DEF Again, RefusalInv, Running
    <3> HIDE DEF at, attempt, error
    <3>5. s \in QueryState
      <4>1. /\ at \in {"none", "ok", "failed", "cancelled"} \cup Running
            /\ q.refused + 1 \in 0..2 /\ attempt \in 0..(Attempts - 1)
            /\ 0 \in Nat /\ FALSE \in BOOLEAN
        BY <3>1 DEF Running, Attempts
      <4> QED
        BY <3>1, <4>1, QueryFields DEF QueryState
    <3>6. s.at = at /\ s.error = error /\ s.allow = FALSE /\ s.refused = q.refused + 1
      BY QueryFields DEF QueryState
    <3> HIDE DEF s
    <3> QED
      BY <3>1, <3>2, <3>3, <3>4, <3>5, <3>6
  <2>3. token' \in {0, token} /\ UNCHANGED <<keyed, logins, expired, bounded, holder, call>>
    BY <1>6 DEF Unauthorized
  <2>4. TypeOK'
    BY <2>2, <2>3 DEF TypeOK
  <2>5. RefusalInv' /\ ErrorInv' /\ IdleInv'
    BY <2>1, <2>2, <2>3 DEF TypeOK, RefusalInv, ErrorInv, IdleInv, Running
  <2>6. LockAccounted' /\ NoNeedlessLogin' /\ NoStrayQuery'
    BY <2>1, <2>2, <2>3
    DEF TypeOK, LockAccounted, NoNeedlessLogin, NoStrayQuery, Returned, Error
  <2> QED
    BY <2>4, <2>5, <2>6
<1>7. ASSUME NEW k \in Task, Answered(k) \/ RequestFails(k) \/ ServerError(k)
      PROVE  ClientInv'
  <2>1. query[k].at = "sent" /\ call[ToolOf[k]] = "running"
    BY <1>7 DEF Answered, RequestFails, ServerError, At
  <2>2. TypeOK'
    <3>1. CASE Answered(k)
      BY <3>1, QueryFields DEF Answered, TypeOK, QueryState
    <3>2. CASE RequestFails(k)
      BY <3>2, QueryFields DEF RequestFails, TypeOK, QueryState, Error
    <3>3. CASE ServerError(k)
      <4>1. query[k].attempt + 1 \in 0..(Attempts - 1)
        BY <3>3, QueryFields DEF ServerError, LastAttempt, Attempts
      <4>2. query' \in [Task -> QueryState]
        BY <3>3, <4>1, QueryFields DEF ServerError, TypeOK, QueryState, Running
      <4>3. bounded' \in [expiries : 0..MaxExpiries, errors : 0..MaxErrors]
        BY <3>3, BoundsAssumption DEF ServerError, TypeOK
      <4> QED
        BY <3>3, <4>2, <4>3 DEF ServerError, TypeOK
    <3> QED
      BY <1>7, <3>1, <3>2, <3>3
  <2>3. RefusalInv' /\ ErrorInv' /\ IdleInv'
    <3>1. CASE Answered(k)
      BY <2>1, <3>1 DEF Answered, TypeOK, QueryState, RefusalInv, ErrorInv, IdleInv, Running, Error
    <3>2. CASE RequestFails(k)
      BY <2>1, <3>2 DEF RequestFails, TypeOK, QueryState, RefusalInv, ErrorInv, IdleInv, Running, Error
    <3>3. CASE ServerError(k)
      BY <2>1, <3>3 DEF ServerError, TypeOK, QueryState, RefusalInv, ErrorInv, IdleInv, Running, Error
    <3> QED
      BY <1>7, <3>1, <3>2, <3>3
  <2>4. LockAccounted' /\ NoNeedlessLogin'
    <3>1. CASE Answered(k)
      BY <2>1, <3>1 DEF Answered, TypeOK, LockAccounted, NoNeedlessLogin
    <3>2. CASE RequestFails(k)
      BY <2>1, <3>2 DEF RequestFails, TypeOK, LockAccounted, NoNeedlessLogin
    <3>3. CASE ServerError(k)
      BY <2>1, <3>3 DEF ServerError, TypeOK, LockAccounted, NoNeedlessLogin
    <3> QED
      BY <1>7, <3>1, <3>2, <3>3
  <2>5. NoStrayQuery'
    BY <1>7, <2>1
    DEF Answered, RequestFails, ServerError, TypeOK, NoStrayQuery, Returned, Error
  <2> QED
    BY <2>2, <2>3, <2>4, <2>5
<1>8. ASSUME NEW k \in Task, Unwind(k)
      PROVE  ClientInv'
  <2>1. TypeOK'
    BY <1>8, QueryFields DEF Unwind, TypeOK, QueryState
  <2>2. RefusalInv' /\ ErrorInv' /\ IdleInv'
    BY <1>8 DEF Unwind, TypeOK, QueryState, RefusalInv, ErrorInv, IdleInv, Running
  <2>3. LockAccounted' /\ NoNeedlessLogin'
    BY <1>8, NoneAssumption DEF Unwind, TypeOK, LockAccounted, NoNeedlessLogin
  <2>4. NoStrayQuery'
    BY <1>8 DEF Unwind, TypeOK, NoStrayQuery, Running
  <2> QED
    BY <2>1, <2>2, <2>3, <2>4
<1>9. ASSUME NEW t \in Tool, CallTool(t)
      PROVE  ClientInv'
  <2>1. \A k \in Task : \/ query'[k] = query[k]
                        \/ /\ ToolOf[k] = t
                           /\ query'[k] = [query[k] EXCEPT !.at = "loop"]
    BY <1>9 DEF CallTool, Queries
  <2>2. \A k \in Task : query'[k] \in QueryState
    <3> TAKE k \in Task
    <3> DEFINE q == query[k]
    <3>1. q \in QueryState
      BY QueryFields
    <3>2. query'[k] = q \/ query'[k] = [q EXCEPT !.at = "loop"]
      BY <2>1
    <3> HIDE DEF q
    <3>3. [q EXCEPT !.at = "loop"] \in QueryState
      BY <3>1 DEF QueryState, Running
    <3> QED BY <3>1, <3>2, <3>3
  <2>3. TypeOK'
    <3>1. query' \in [Task -> QueryState]
      <4>1. PICK W : query' = [k \in Task |-> IF k \in W THEN [query[k] EXCEPT !.at = "loop"]
                                             ELSE query[k]]
        BY <1>9 DEF CallTool
      <4> QED BY <2>2, <4>1
    <3>2. /\ call' \in [Tool -> {"idle", "running", "aborting"} \cup Returned]
          /\ UNCHANGED <<keyed, token, logins, expired, bounded, holder>>
      BY <1>9 DEF CallTool, TypeOK
    <3> QED BY <3>1, <3>2 DEF TypeOK
  <2>4. call' = [call EXCEPT ![t] = "running"] /\ call[t] = "idle"
    BY <1>9 DEF CallTool
  <2>5. RefusalInv' /\ ErrorInv' /\ IdleInv'
    <3>1. ASSUME NEW k \in Task
          PROVE  /\ query'[k].refused = query[k].refused /\ query'[k].allow = query[k].allow
                 /\ query'[k].error = query[k].error
                 /\ query'[k].at = query[k].at \/ (query'[k].at = "loop" /\ ToolOf[k] = t)
      BY <2>1, QueryFields DEF QueryState
    <3>2. RefusalInv' /\ ErrorInv'
      BY <2>4, <3>1, QueryFields DEF RefusalInv, ErrorInv, IdleInv
    <3>3. IdleInv'
      BY <2>1, <2>4, <3>1, ToolOfAssumption DEF TypeOK, IdleInv
    <3> QED
      BY <3>2, <3>3
  <2>6. LockAccounted' /\ NoNeedlessLogin'
    BY <1>9, <2>1, <2>4, QueryFields
    DEF CallTool, QueryState, IdleInv, LockAccounted, NoNeedlessLogin
  <2>7. NoStrayQuery'
    BY <2>1, <2>4, ToolOfAssumption DEF TypeOK, NoStrayQuery, Returned, Error
  <2> QED
    BY <2>3, <2>5, <2>6, <2>7
<1>a. ASSUME NEW t \in Tool, Abort(t) \/ CancelTool(t)
      PROVE  ClientInv'
  <2>1. /\ call[t] = "running" /\ call' = [call EXCEPT ![t] = "aborting"]
        /\ UNCHANGED <<keyed, token, logins, expired, bounded, holder, query>>
    BY <1>a DEF Abort, CancelTool
  <2>2. TypeOK' /\ RefusalInv' /\ ErrorInv' /\ LockAccounted' /\ NoNeedlessLogin'
    BY <2>1 DEF TypeOK, RefusalInv, ErrorInv, LockAccounted, NoNeedlessLogin
  <2>3. IdleInv' /\ NoStrayQuery'
    BY <2>1, ToolOfAssumption DEF TypeOK, IdleInv, NoStrayQuery, Returned, Error
  <2> QED
    BY <2>2, <2>3
<1>b. ASSUME NEW t \in Tool, Return(t)
      PROVE  ClientInv'
  <2>1. PICK r \in Returned : call' = [call EXCEPT ![t] = r]
    <3>1. CASE Failures(t) = {}
      BY <1>b, <3>1 DEF Return, Returned
    <3>2. Failures(t) \subseteq Error
      BY DEF Failures, Queries, ErrorInv
    <3> QED
      BY <1>b, <3>1, <3>2 DEF Return, Returned
  <2>2. TypeOK' /\ RefusalInv' /\ ErrorInv' /\ LockAccounted' /\ NoNeedlessLogin'
    BY <1>b, <2>1 DEF Return, TypeOK, RefusalInv, ErrorInv, LockAccounted, NoNeedlessLogin
  <2>3. IdleInv' /\ NoStrayQuery'
    BY <1>b, <2>1, ToolOfAssumption
    DEF Return, Queries, TypeOK, IdleInv, NoStrayQuery, Returned, Error
  <2> QED
    BY <2>2, <2>3
<1>c. CASE Expire
  <2>1. TypeOK'
    BY <1>c, BoundsAssumption DEF Expire, TypeOK
  <2>2. RefusalInv' /\ ErrorInv' /\ IdleInv' /\ LockAccounted' /\ NoNeedlessLogin' /\ NoStrayQuery'
    BY <1>c DEF Expire, RefusalInv, ErrorInv, IdleInv, LockAccounted, NoNeedlessLogin, NoStrayQuery
  <2> QED
    BY <2>1, <2>2
<1>d. ASSUME NEW k \in Task, SendKeyed(k)
      PROVE  ClientInv'
  <2>1. TypeOK'
    BY <1>d, QueryFields DEF SendKeyed, Goto, TypeOK, QueryState, Running
  <2>2. RefusalInv' /\ ErrorInv' /\ IdleInv'
    BY <1>d DEF SendKeyed, Goto, At, TypeOK, QueryState, RefusalInv, ErrorInv, IdleInv, Running
  <2>3. LockAccounted' /\ NoNeedlessLogin' /\ NoStrayQuery'
    BY <1>d DEF SendKeyed, Goto, At, TypeOK, LockAccounted, NoNeedlessLogin, NoStrayQuery,
       Returned, Error
  <2> QED
    BY <2>1, <2>2, <2>3
<1>e. ASSUME NEW k \in Task, KeyRefused(k)
      PROVE  ClientInv'
  <2>1. /\ query[k].at = "sent" /\ call[ToolOf[k]] = "running"
        /\ query[k].refused \in 0..1
    BY <1>e, QueryFields DEF KeyRefused, At, RefusalInv, Running
  <2>2. TypeOK'
    <3>1. query[k].refused + 1 \in 0..2
      BY <2>1
    <3>2. query' \in [Task -> QueryState]
      BY <1>e, <3>1, QueryFields DEF KeyRefused, TypeOK, QueryState, Error
    <3> QED
      BY <1>e, <3>2 DEF KeyRefused, TypeOK
  <2>3. RefusalInv' /\ ErrorInv' /\ IdleInv'
    BY <1>e, <2>1
    DEF KeyRefused, TypeOK, QueryState, RefusalInv, ErrorInv, IdleInv, Running, Error
  <2>4. LockAccounted' /\ NoNeedlessLogin' /\ NoStrayQuery'
    BY <1>e, <2>1 DEF KeyRefused, TypeOK, LockAccounted, NoNeedlessLogin, NoStrayQuery, Running
  <2> QED
    BY <2>2, <2>3, <2>4
<1> QED
  BY <1>0, <1>1, <1>2, <1>3, <1>4, <1>5, <1>6, <1>7, <1>8, <1>9, <1>a, <1>b, <1>c, <1>d, <1>e
  DEF Next, QueryStep

LEMMA ClientInvariant == Spec => []ClientInv
BY ClientInit, ClientNext, PTL DEF Spec

\* The login lock is held by exactly the query that is logging in.
THEOREM LoginLockAccounted == Spec => []LockAccounted
<1>1. ClientInv => LockAccounted
  BY DEF ClientInv
<1> QED
  BY <1>1, ClientInvariant, PTL

\* Nobody logs in while a session is cached.
THEOREM NobodyLogsInTwice == Spec => []NoNeedlessLogin
<1>1. ClientInv => NoNeedlessLogin
  BY DEF ClientInv
<1> QED
  BY <1>1, ClientInvariant, PTL

\* A tool call that has returned left no query behind.
THEOREM NoQueryOutlivesItsCall == Spec => []NoStrayQuery
<1>1. ClientInv => NoStrayQuery
  BY DEF ClientInv
<1> QED
  BY <1>1, ClientInvariant, PTL

\* Every variable keeps its type, for any number of calls, queries, expiries
\* and server errors: attempts stay below three and refusals below three.
THEOREM ClientTypeCorrect == Spec => []TypeOK
<1>1. ClientInv => TypeOK
  BY DEF ClientInv
<1> QED
  BY <1>1, ClientInvariant, PTL

-----------------------------------------------------------------------------
(* The bound on logins.  A login needs a token that was dropped, but for   *)
(* the first; a token is dropped for a query that was never refused        *)
(* before.  So while there is no token, every login so far is paid for by  *)
(* a refused query, and one may be open while there is one.                *)

LoginsPaid == logins <= Cardinality(Refused) + (IF token = 0 THEN 0 ELSE 1)

LEMMA RefusedFinite ==
    /\ IsFiniteSet(Refused) /\ IsFiniteSet(Refused')
    /\ Cardinality(Refused) \in Nat /\ Cardinality(Refused') \in Nat
<1>1. Refused \subseteq Task /\ Refused' \subseteq Task
  BY DEF Refused
<1> QED
  BY <1>1, TaskAssumption, FS_Subset, FS_CardinalityType

LEMMA LoginsInit == Init => LoginsPaid
BY RefusedFinite DEF Init, LoginsPaid

LEMMA LoginsNext == ClientInv /\ LoginsPaid /\ [Next]_vars => LoginsPaid'
<1> SUFFICES ASSUME ClientInv, LoginsPaid, [Next]_vars PROVE LoginsPaid'
  OBVIOUS
<1>1. ASSUME NEW k \in Task, LoginOk(k)
      PROVE  LoginsPaid'
  <2>1. token = 0 /\ logins \in Nat /\ logins' = logins + 1 /\ token' = logins'
    BY <1>1 DEF LoginOk, At, ClientInv, NoNeedlessLogin, TypeOK
  <2>2. Refused' = Refused
    BY <1>1 DEF LoginOk, ClientInv, TypeOK, QueryState, Refused
  <2> QED
    BY <2>1, <2>2, RefusedFinite DEF LoginsPaid
<1>2. ASSUME NEW k \in Task, Unauthorized(k)
      PROVE  LoginsPaid'
  <2>1. query[k].refused \in Nat /\ logins \in Nat /\ token \in Nat /\ logins' = logins
    BY <1>2, QueryFields DEF Unauthorized, ClientInv, TypeOK
  <2>2. Refused' = Refused \cup {k}
    BY <1>2, <2>1 DEF Unauthorized, ClientInv, TypeOK, QueryState, Refused
  <2>3. CASE query[k].allow
    <3>1. k \notin Refused /\ token' = 0
      BY <1>2, <2>3 DEF Unauthorized, At, ClientInv, RefusalInv, Running, Refused
    <3>2. Cardinality(Refused') = Cardinality(Refused) + 1
      BY <2>2, <3>1, RefusedFinite, FS_AddElement
    <3> QED
      BY <2>1, <3>1, <3>2, RefusedFinite DEF LoginsPaid
  <2>4. CASE ~query[k].allow
    <3>1. token' = token
      BY <1>2, <2>4 DEF Unauthorized
    <3>2. Cardinality(Refused) <= Cardinality(Refused')
      BY <2>2, RefusedFinite, FS_Subset
    <3> QED
      BY <2>1, <3>1, <3>2, RefusedFinite DEF LoginsPaid
  <2> QED
    BY <2>3, <2>4
<1>3. ASSUME UNCHANGED <<token, logins>>, \A k \in Task : query'[k].refused = query[k].refused
      PROVE  LoginsPaid'
  <2>1. Refused' = Refused
    BY <1>3 DEF Refused
  <2> QED
    BY <1>3, <2>1 DEF LoginsPaid
<1>4. ASSUME NEW k \in Task,
             Send(k) \/ WaitForLock(k) \/ Login(k) \/ LoginFails(k) \/ Answered(k)
                 \/ RequestFails(k) \/ ServerError(k) \/ Unwind(k)
      PROVE  LoginsPaid'
  <2>1. UNCHANGED <<token, logins>>
    BY <1>4 DEF Send, WaitForLock, Login, LoginFails, Answered, RequestFails, ServerError, Unwind
  <2>2. \A j \in Task : query'[j].refused = query[j].refused
    <3>1. CASE Send(k)
      BY <3>1 DEF Send, ClientInv, TypeOK, QueryState
    <3>2. CASE WaitForLock(k)
      BY <3>2 DEF WaitForLock, Goto, ClientInv, TypeOK, QueryState
    <3>3. CASE Login(k)
      BY <3>3 DEF Login, Goto, ClientInv, TypeOK, QueryState
    <3>4. CASE LoginFails(k)
      BY <3>4 DEF LoginFails, ClientInv, TypeOK, QueryState
    <3>5. CASE Answered(k)
      BY <3>5 DEF Answered, ClientInv, TypeOK, QueryState
    <3>6. CASE RequestFails(k)
      BY <3>6 DEF RequestFails, ClientInv, TypeOK, QueryState
    <3>7. CASE ServerError(k)
      BY <3>7 DEF ServerError, ClientInv, TypeOK, QueryState
    <3>8. CASE Unwind(k)
      BY <3>8 DEF Unwind, ClientInv, TypeOK, QueryState
    <3> QED
      BY <1>4, <3>1, <3>2, <3>3, <3>4, <3>5, <3>6, <3>7, <3>8
  <2> QED
    BY <1>3, <2>1, <2>2
<1>5. ASSUME NEW t \in Tool, CallTool(t)
      PROVE  LoginsPaid'
  <2>1. \A k \in Task : query'[k].refused = query[k].refused
    BY <1>5 DEF CallTool, ClientInv, TypeOK, QueryState
  <2> QED
    BY <1>3, <1>5, <2>1 DEF CallTool
<1>6. CASE UNCHANGED <<token, logins, query>>
  BY <1>3, <1>6
<1>7. ASSUME NEW k \in Task, SendKeyed(k)
      PROVE  LoginsPaid'
  <2>1. \A j \in Task : query'[j].refused = query[j].refused
    BY <1>7 DEF SendKeyed, Goto, ClientInv, TypeOK, QueryState
  <2> QED
    BY <1>3, <1>7, <2>1 DEF SendKeyed
<1>8. ASSUME NEW k \in Task, KeyRefused(k)
      PROVE  LoginsPaid'
  <2>1. UNCHANGED <<token, logins>> /\ logins \in Nat /\ token \in Nat
    BY <1>8 DEF KeyRefused, ClientInv, TypeOK
  <2>2. Refused \subseteq Refused'
    BY <1>8, QueryFields DEF KeyRefused, ClientInv, TypeOK, QueryState, Refused
  <2>3. Cardinality(Refused) <= Cardinality(Refused')
    BY <2>2, RefusedFinite, FS_Subset
  <2> QED
    BY <2>1, <2>3, RefusedFinite DEF LoginsPaid
<1> QED
  BY <1>1, <1>2, <1>4, <1>5, <1>6, <1>7, <1>8
  DEF Next, QueryStep, Abort, CancelTool, Return, Expire, vars

\* At most one login per refused query, and the first.
THEOREM LoginsStayBounded == Spec => []LoginsBounded
<1>1. ClientInv /\ LoginsPaid => LoginsBounded
  BY RefusedFinite DEF ClientInv, TypeOK, LoginsPaid, LoginsBounded
<1> QED
  BY <1>1, ClientInvariant, LoginsInit, LoginsNext, PTL DEF Spec
=============================================================================
