--------------------------- MODULE MetabaseClient ---------------------------
(***************************************************************************)
(* The Metabase client of the schema MCP server                            *)
(* (src/zen/schema_mcp/metabase_client.py) under the tool calls that share *)
(* it (tools.py): a tool call runs its queries concurrently in a task      *)
(* group, and all queries of the process share one session token and one   *)
(* login lock, or an API key and no session.                               *)
(*                                                                         *)
(* A query is a task; what it does between two awaits is one step, but     *)
(* that the top of the retry loop starts a new one, which only adds        *)
(* interleavings.  Who gets the login lock next is left open (asyncio.Lock *)
(* is modelled in AgentServer).                                            *)
(***************************************************************************)
EXTENDS Naturals, FiniteSets

CONSTANTS
    Tool,         \* tool calls
    Task,         \* the queries they may make
    ToolOf,       \* the tool call that a query belongs to
    MaxExpiries,  \* how often Metabase drops its sessions
    MaxErrors,    \* how many 5xx are answered that are tried again
    None

ASSUME BoundsAssumption == MaxExpiries \in Nat /\ MaxErrors \in Nat
ASSUME TaskAssumption == IsFiniteSet(Task)
ASSUME NoneAssumption == None \notin Task
ASSUME ToolOfAssumption == ToolOf \in [Task -> Tool]

Queries(t) == {k \in Task : ToolOf[k] = t}

Attempts == 3   \* _DEFAULT_RETRIES

\* What a query raises, as far as the properties tell errors apart.
Error == {"upstream", "not_recovered"}

VARIABLES
    keyed,     \* the settings have an API key
    token,     \* _session_token: the number of a session, 0 for None
    logins,    \* how many logins were answered with a session
    expired,   \* sessions up to this number are refused
    bounded,   \* how often sessions expired and 5xx were tried again
    holder,    \* the query holding _auth_lock
    query,     \* where each query is, and its locals
    call       \* where each tool call is, and what it raised or returned

vars == <<keyed, token, logins, expired, bounded, holder, query, call>>

Running == {"loop", "lock", "login", "sent"}

\* attempt counts from 0, allow is allow_refresh, used the session of the
\* request under way, refused the number of 401 answers.
QueryState ==
    [at : {"none", "ok", "failed", "cancelled"} \cup Running,
     attempt : 0..(Attempts - 1), allow : BOOLEAN, used : Nat, refused : 0..2,
     error : Error \cup {None}]

Returned == {"ok", "cancelled"} \cup Error

TypeOK ==
    /\ keyed \in BOOLEAN
    /\ token \in Nat /\ logins \in Nat /\ expired \in Nat
    /\ token <= logins /\ expired <= logins
    /\ bounded \in [expiries : 0..MaxExpiries, errors : 0..MaxErrors]
    /\ holder \in Task \cup {None}
    /\ query \in [Task -> QueryState]
    /\ call \in [Tool -> {"idle", "running", "aborting"} \cup Returned]

Init ==
    /\ keyed \in BOOLEAN
    /\ token = 0 /\ logins = 0 /\ expired = 0
    /\ bounded = [expiries |-> 0, errors |-> 0]
    /\ holder = None
    /\ query = [k \in Task |-> [at |-> "none", attempt |-> 0, allow |-> TRUE,
                                used |-> 0, refused |-> 0, error |-> None]]
    /\ call = [t \in Tool |-> "idle"]

\* A query of an aborting task group is cancelled at its await.
At(k, l) == query[k].at = l /\ call[ToolOf[k]] = "running"

Goto(k, l) == query' = [query EXCEPT ![k].at = l]

-----------------------------------------------------------------------------
(* _ensure_session and _login_locked                                       *)

\* With an API key the request goes out as it is.
SendKeyed(k) ==
    /\ keyed /\ At(k, "loop")
    /\ Goto(k, "sent")
    /\ UNCHANGED <<keyed, token, logins, expired, bounded, holder, call>>

\* Mutant: whoever waited for the lock is not told of the session it brought.
Send_NotWoken(k) ==
    /\ At(k, "loop") /\ token # 0
    /\ query' = [query EXCEPT ![k] = [@ EXCEPT !.at = "sent", !.used = token]]
    /\ UNCHANGED <<keyed, token, logins, expired, bounded, holder, call>>

\* It goes out with the cached session, at once or once the lock that another
\* query logged in under is free.
Send(k) ==
    /\ At(k, "loop") \/ (At(k, "lock") /\ holder = None)
    /\ token # 0
    /\ query' = [query EXCEPT ![k] = [@ EXCEPT !.at = "sent", !.used = token]]
    /\ UNCHANGED <<keyed, token, logins, expired, bounded, holder, call>>

WaitForLock(k) ==
    /\ At(k, "loop") /\ ~keyed /\ token = 0 /\ holder # None
    /\ Goto(k, "lock")
    /\ UNCHANGED <<keyed, token, logins, expired, bounded, holder, call>>

\* Mutant: whoever waited for the lock logs in.
MustLogin_NoRecheck(k) == (At(k, "loop") /\ ~keyed /\ token = 0) \/ At(k, "lock")

MustLogin(k) == (At(k, "loop") \/ At(k, "lock")) /\ ~keyed /\ token = 0

\* The lock is free and there is no session, or still none.
Login(k) ==
    /\ MustLogin(k) /\ holder = None
    /\ holder' = k
    /\ Goto(k, "login")
    /\ UNCHANGED <<keyed, token, logins, expired, bounded, call>>

\* Mutant: the new session is used and not cached.
LoginOk_Uncached(k) ==
    /\ At(k, "login")
    /\ logins' = logins + 1
    /\ holder' = None
    /\ query' = [query EXCEPT ![k] = [@ EXCEPT !.at = "sent", !.used = logins']]
    /\ UNCHANGED <<keyed, token, expired, bounded, call>>

\* The new session is cached, the lock released and the request sent.
LoginOk(k) ==
    /\ At(k, "login")
    /\ logins' = logins + 1
    /\ token' = logins'
    /\ holder' = None
    /\ query' = [query EXCEPT ![k] = [@ EXCEPT !.at = "sent", !.used = logins']]
    /\ UNCHANGED <<keyed, expired, bounded, call>>

\* The credentials are rejected, the answer has no session, or no answer.
LoginFails(k) ==
    /\ At(k, "login")
    /\ holder' = None
    /\ query' = [query EXCEPT ![k] = [@ EXCEPT !.at = "failed", !.error = "upstream"]]
    /\ UNCHANGED <<keyed, token, logins, expired, bounded, call>>

-----------------------------------------------------------------------------
(* _request and run_native_metadata_query                                  *)

\* Mutant: one attempt too many.
LastAttempt_OffByOne(k) == query[k].attempt = Attempts

LastAttempt(k) == query[k].attempt = Attempts - 1

\* The session of the request is gone.  The first time, the token is dropped,
\* whichever it is by now, and the query goes round the loop again, unless
\* this was the last time round: then the 401 is its answer after all.
Again(k) == query[k].allow /\ ~LastAttempt(k)

Unauthorized(k) ==
    /\ At(k, "sent") /\ ~keyed /\ query[k].used <= expired
    /\ token' = IF query[k].allow THEN 0 ELSE token
    /\ query' = [query EXCEPT ![k] = [@ EXCEPT
          !.at = IF Again(k) THEN "loop" ELSE "failed",
          !.attempt = IF Again(k) THEN query[k].attempt + 1 ELSE query[k].attempt,
          !.error = IF Again(k) THEN query[k].error ELSE "not_recovered",
          !.allow = FALSE, !.used = 0, !.refused = query[k].refused + 1]]
    /\ UNCHANGED <<keyed, logins, expired, bounded, holder, call>>

\* An API key that is refused is not renewed.
KeyRefused(k) ==
    /\ At(k, "sent") /\ keyed
    /\ query' = [query EXCEPT ![k] = [@ EXCEPT
          !.at = "failed", !.error = "not_recovered", !.refused = query[k].refused + 1]]
    /\ UNCHANGED <<keyed, token, logins, expired, bounded, holder, call>>

Answered(k) ==
    /\ At(k, "sent") /\ (keyed \/ query[k].used > expired)
    /\ query' = [query EXCEPT ![k] = [@ EXCEPT !.at = "ok", !.used = 0]]
    /\ UNCHANGED <<keyed, token, logins, expired, bounded, holder, call>>

\* A timeout, a broken connection, another 4xx, a 5xx in the last attempt, or
\* a 2xx whose body says that the query failed.
RequestFails(k) ==
    /\ At(k, "sent")
    /\ query' = [query EXCEPT ![k] = [@ EXCEPT
          !.at = "failed", !.error = "upstream", !.used = 0]]
    /\ UNCHANGED <<keyed, token, logins, expired, bounded, holder, call>>

\* While attempts are left a 5xx is slept off: the query stays at the top of
\* the loop for as long.
ServerError(k) ==
    /\ At(k, "sent") /\ ~LastAttempt(k)
    /\ bounded.errors < MaxErrors
    /\ bounded' = [bounded EXCEPT !.errors = @ + 1]
    /\ query' = [query EXCEPT ![k] = [@ EXCEPT
          !.at = "loop", !.attempt = query[k].attempt + 1, !.used = 0]]
    /\ UNCHANGED <<keyed, token, logins, expired, holder, call>>

-----------------------------------------------------------------------------
(* The tool call and its task group                                        *)

CallTool(t) ==
    /\ call[t] = "idle"
    /\ call' = [call EXCEPT ![t] = "running"]
    /\ \E Wanted \in SUBSET Queries(t) :
          query' = [k \in Task |-> IF k \in Wanted
                                   THEN [query[k] EXCEPT !.at = "loop"] ELSE query[k]]
    /\ UNCHANGED <<keyed, token, logins, expired, bounded, holder>>

Failures(t) == {query[k].error : k \in {f \in Queries(t) : query[f].at = "failed"}}

\* Mutant: gather in place of the task group: the first error is raised and
\* the other queries go on.
Abort_Gather(t) ==
    /\ call[t] = "running"
    /\ \E e \in Failures(t) : call' = [call EXCEPT ![t] = e]
    /\ UNCHANGED <<keyed, token, logins, expired, bounded, holder, query>>

\* The group learns that a query failed and cancels the others.
Abort(t) ==
    /\ call[t] = "running" /\ Failures(t) # {}
    /\ call' = [call EXCEPT ![t] = "aborting"]
    /\ UNCHANGED <<keyed, token, logins, expired, bounded, holder, query>>

\* The client of the MCP server gives up.
CancelTool(t) ==
    /\ call[t] = "running"
    /\ call' = [call EXCEPT ![t] = "aborting"]
    /\ UNCHANGED <<keyed, token, logins, expired, bounded, holder, query>>

\* Mutant: a cancelled login keeps the lock.
Unwind_Leaks(k) ==
    /\ call[ToolOf[k]] = "aborting" /\ query[k].at \in Running
    /\ query' = [query EXCEPT ![k] = [@ EXCEPT !.at = "cancelled", !.used = 0]]
    /\ UNCHANGED <<keyed, token, logins, expired, bounded, holder, call>>

Unwind(k) ==
    /\ call[ToolOf[k]] = "aborting" /\ query[k].at \in Running
    /\ holder' = IF holder = k THEN None ELSE holder
    /\ query' = [query EXCEPT ![k] = [@ EXCEPT !.at = "cancelled", !.used = 0]]
    /\ UNCHANGED <<keyed, token, logins, expired, bounded, call>>

\* All queries are done: the first error is raised, if there is one.
Return(t) ==
    /\ call[t] \in {"running", "aborting"}
    /\ \A k \in Queries(t) : query[k].at \notin Running
    /\ \/ \E e \in Failures(t) : call' = [call EXCEPT ![t] = e]
       \/ /\ Failures(t) = {}
          /\ call' = [call EXCEPT ![t] = IF @ = "aborting" THEN "cancelled" ELSE "ok"]
    /\ UNCHANGED <<keyed, token, logins, expired, bounded, holder, query>>

-----------------------------------------------------------------------------

\* Metabase forgets the sessions it has opened: a restart, or their age.
Expire ==
    /\ bounded.expiries < MaxExpiries /\ expired < logins
    /\ bounded' = [bounded EXCEPT !.expiries = @ + 1]
    /\ expired' = logins
    /\ UNCHANGED <<keyed, token, logins, holder, query, call>>

QueryStep(k) ==
    \/ SendKeyed(k) \/ Send(k) \/ WaitForLock(k)
    \/ Login(k) \/ LoginOk(k) \/ LoginFails(k)
    \/ Unauthorized(k) \/ KeyRefused(k) \/ Answered(k) \/ RequestFails(k) \/ ServerError(k)
    \/ Unwind(k)

Next ==
    \/ \E k \in Task : QueryStep(k)
    \/ \E t \in Tool : CallTool(t) \/ Abort(t) \/ CancelTool(t) \/ Return(t)
    \/ Expire

Spec == Init /\ [][Next]_vars

\* The event loop runs what is ready, backoff timers fire, and every request
\* is answered, one way or another, within its httpx timeout.  Calls,
\* cancellations and expiries are never certain.
Fairness ==
    /\ \A k \in Task : WF_vars(QueryStep(k))
    /\ \A t \in Tool : WF_vars(Abort(t)) /\ WF_vars(Return(t))

FairSpec == Spec /\ Fairness

-----------------------------------------------------------------------------
(* Properties.                                                             *)

\* The login lock is held by exactly the query that is logging in: it comes
\* back on every error and on a cancellation in the middle of a login, so one
\* login is under way at a time (metabase_client.py:164-169).
LockAccounted == \A k \in Task : holder = k <=> query[k].at = "login"

\* Nobody logs in while a session is cached: queries that queued up behind a
\* login use what it brought (metabase_client.py:165-168).
NoNeedlessLogin == (\E k \in Task : query[k].at = "login") => token = 0

Refused == {k \in Task : query[k].refused > 0}

\* A burst of refused queries cannot become a storm of logins: each query
\* makes at most one session be opened anew (metabase_client.py:200-203).
LoginsBounded == logins <= 1 + Cardinality(Refused)

\* When a tool call has returned, with an answer, an error or a cancellation,
\* none of its queries is still under way (tools.py:145-153).
NoStrayQuery ==
    \A k \in Task : call[ToolOf[k]] \in Returned => query[k].at \notin Running

\* Every tool call returns, although others fail, are cancelled in the middle
\* of a login the rest waits for, or have the session dropped under them.
ToolsReturn == \A t \in Tool : call[t] = "running" ~> call[t] \in Returned

-----------------------------------------------------------------------------
(* What the docs say and the code does not do.                             *)

\* "session refresh did not recover from 401" (metabase_client.py:258): the
\* query was refused, the session refreshed, and the query refused again.
\* (With an API key there is no session; the message is the same.)
NotRecoveredWasRetried ==
    \A k \in Task :
        ~keyed /\ query[k].error = "not_recovered" => query[k].refused = 2

\* There is no "401-refresh race" (docs/progress.md:907): a token that works
\* is never dropped, so each expiry costs one login.
OneLoginPerExpiry == logins <= 1 + bounded.expiries
=============================================================================
