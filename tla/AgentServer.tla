---------------------------- MODULE AgentServer ----------------------------
(***************************************************************************)
(* The SQL agent server of zensql: the requests of POST /v1/sql/generate,  *)
(* the per-user locks that serialize them, the runner that spawns one      *)
(* `claude` process per attempt, and the audit trail and reply each        *)
(* request ends with (orchestrator.py, session.py, agent_runner.py,        *)
(* deps.py under src/zen/sql_agent_server).                                *)
(*                                                                         *)
(* The server is one event loop, so an action is what one task does        *)
(* between two awaits.  The dependencies of a request are resolved in a    *)
(* thread pool, and the `claude` processes run outside the server: both    *)
(* interleave with it freely, and a process outlives a crashed server.     *)
(*                                                                         *)
(* Time is not modelled: a timer may fire at any moment of the await it    *)
(* guards.                                                                 *)
(***************************************************************************)
EXTENDS Naturals, FiniteSets

CONSTANTS
    Request,         \* the requests the bot sends
    User,            \* the Telegram users
    UserOf,          \* the user of each request
    SessionModes,    \* the values settings.session_enabled may have
    Threads,         \* workers of the pool that resolves sync dependencies
    MaxCrashes,      \* bound: kills of the server process
    Output,          \* what a `claude` run may end with
    RegistryState,   \* the states the registry file may be found in
    None

Outputs == {"sql", "unsafe_sql", "unread_sql", "chat", "nothing", "fail", "marker", "state"}

RegistryStates == {"ok", "malformed", "unreadable", "undecodable"}

ASSUME UserOfAssumption == UserOf \in [Request -> User]
ASSUME SessionModesAssumption == SessionModes \subseteq BOOLEAN
ASSUME BoundsAssumption == Threads \in Nat \ {0} /\ MaxCrashes \in Nat
ASSUME OutputAssumption == Output \subseteq Outputs
ASSUME RegistryAssumption == "ok" \in RegistryState /\ RegistryState \subseteq RegistryStates
ASSUME NoneAssumption == None \notin Request

VARIABLES
    session,     \* settings.session_enabled, read once
    up,          \* the server process is alive
    crashes,     \* how often it was killed
    cache,       \* the UserLocks instance lru_cache holds for get_user_locks
    pc,          \* where each request is
    table,       \* the UserLocks instance injected into its orchestrator
    locked,      \* the asyncio locks whose _locked flag is set
    ahead,       \* the waiters in front of a waiter in its lock's deque
    fut,         \* the future a waiter awaits in Lock.acquire
    cancel,      \* a cancellation requested of the task and not yet delivered
    attempt,     \* the execs of `claude` begun for the request
    resume,      \* the mode of the next exec: --resume or --session-id
    proc,        \* the `claude` process of the request, or what it ended with
    transcript,  \* the users whose session transcript is on disk
    registry,    \* the state of the registry file
    event,       \* the last audit event of the request
    reply        \* what the client received

serverVars == <<session, up, crashes, cache>>
lockVars   == <<locked, ahead, fut>>
runVars    == <<attempt, resume, proc>>
diskVars   == <<transcript, registry>>
outVars    == <<event, reply>>
vars == <<serverVars, pc, table, lockVars, cancel, runVars, diskVars, outVars>>

-----------------------------------------------------------------------------
(* Types.                                                                  *)

\* A UserLocks instance is named by the request whose dependency built it;
\* a lock of it by the instance and the user.
LockId == Request \X User

\* Where a task holds its user's lock.
InRunner == {"starting", "running", "killing"}

PC == {"idle", "building", "ready", "waiting", "done", "aborted", "lost"} \cup InRunner

\* A process that can still write the session transcript.
Live == {"starting", "writing"}

Proc == {"none", "killed"} \cup Live \cup Outputs

Event == {"none", "agent_invocation_started", "agent_invocation_completed", "unsafe_intent_rejected", "user_busy",
          "spawn_failed", "timeout", "non_zero_exit", "chat_reply", "no_sql_block",
          "safety_violation", "sql_generated"}

Reply == {"none", "SQL", "CHAT", "UNSAFE_INTENT", "BUSY", "AGENT_FAILED", "TIMEOUT",
          "NO_SQL_PRODUCED", "VALIDATION_FAILED", "HTTP_500"}

TypeOK ==
    /\ session \in BOOLEAN
    /\ up \in BOOLEAN
    /\ crashes \in 0..MaxCrashes
    /\ cache \in Request \cup {None}
    /\ pc \in [Request -> PC]
    /\ table \in [Request -> Request \cup {None}]
    /\ locked \subseteq LockId
    /\ ahead \in [Request -> SUBSET Request]
    /\ fut \in [Request -> {"none", "pending", "set", "cancelled"}]
    /\ cancel \in [Request -> {"no", "timeout", "cancel"}]
    /\ attempt \in [Request -> 0..2]
    /\ resume \in [Request -> BOOLEAN]
    /\ proc \in [Request -> Proc]
    /\ transcript \subseteq User
    /\ registry \in RegistryState
    /\ event \in [Request -> Event]
    /\ reply \in [Request -> Reply]

Init ==
    /\ session \in SessionModes
    /\ up = TRUE
    /\ crashes = 0
    /\ cache = None
    /\ pc = [r \in Request |-> "idle"]
    /\ table = [r \in Request |-> None]
    /\ locked = {}
    /\ ahead = [r \in Request |-> {}]
    /\ fut = [r \in Request |-> "none"]
    /\ cancel = [r \in Request |-> "no"]
    /\ attempt = [r \in Request |-> 0]
    /\ resume = [r \in Request |-> FALSE]
    /\ proc = [r \in Request |-> "none"]
    /\ transcript \in SUBSET User
    /\ registry = "ok"
    /\ event = [r \in Request |-> "none"]
    /\ reply = [r \in Request |-> "none"]

Goto(r, l) == pc' = [pc EXCEPT ![r] = l]

\* The task of a request ends, and with it its orchestrator and locals.
LocalsGone(r) ==
    /\ table' = [table EXCEPT ![r] = None]
    /\ cancel' = [cancel EXCEPT ![r] = "no"]
    /\ attempt' = [attempt EXCEPT ![r] = 0]
    /\ resume' = [resume EXCEPT ![r] = FALSE]

\* It ends with an answer: the last audit event and the reply.
Close(r, e, code) ==
    /\ LocalsGone(r)
    /\ Goto(r, "done")
    /\ event' = [event EXCEPT ![r] = e]
    /\ reply' = [reply EXCEPT ![r] = code]

\* It ends by a CancelledError: no event, no answer.
Abort(r) ==
    /\ LocalsGone(r)
    /\ Goto(r, "aborted")
    /\ UNCHANGED outVars

-----------------------------------------------------------------------------
(* The dependency get_user_locks, an lru_cache'd factory called from sync  *)
(* dependencies in the thread pool.  lru_cache runs the factory outside    *)
(* its lock: two first calls may both miss, each gets the instance it      *)
(* built, and the first to finish is the one kept.                         *)

LocksFromCache(r) ==
    /\ up /\ pc[r] = "idle" /\ cache # None
    /\ table' = [table EXCEPT ![r] = cache]
    /\ Goto(r, "ready")
    /\ UNCHANGED <<serverVars, lockVars, cancel, runVars, diskVars, outVars>>

LocksMiss(r) ==
    /\ up /\ pc[r] = "idle" /\ cache = None
    /\ Cardinality({q \in Request : pc[q] = "building"}) < Threads
    /\ Goto(r, "building")
    /\ UNCHANGED <<serverVars, table, lockVars, cancel, runVars, diskVars, outVars>>

LocksBuilt(r) ==
    /\ pc[r] = "building"
    /\ table' = [table EXCEPT ![r] = r]
    /\ cache' = IF cache = None THEN r ELSE cache
    /\ Goto(r, "ready")
    /\ UNCHANGED <<session, up, crashes, lockVars, cancel, runVars, diskVars, outVars>>

-----------------------------------------------------------------------------
(* asyncio.Lock, as Orchestrator.run uses it: a flag and a deque of        *)
(* futures.  release() clears the flag and sets the future at the head of  *)
(* the deque; the flag is set again only when that waiter's task runs.     *)

LockOf(r) == <<table[r], UserOf[r]>>

Waiters(l) == {q \in Request : pc[q] = "waiting" /\ LockOf(q) = l}

\* Mutant: a release wakes the whole queue.
Woken_All(r, l) == {q \in Waiters(l) \ {r} : fut[q] = "pending"}

\* _wake_up_first once r has left the deque: the head, unless it is done.
Woken(r, l) == {q \in Waiters(l) \ {r} : ahead[q] \subseteq {r} /\ fut[q] = "pending"}

SetFutures(W) == [q \in Request |-> IF q \in W THEN "set" ELSE fut[q]]

Release(r) ==
    IF session
    THEN /\ locked' = locked \ {LockOf(r)}
         /\ fut' = SetFutures(Woken(r, LockOf(r)))
         /\ UNCHANGED ahead
    ELSE UNCHANGED lockVars

Dequeued(r) == [q \in Request |-> IF q = r THEN {} ELSE ahead[q] \ {r}]

-----------------------------------------------------------------------------
(* Orchestrator.run up to the spawn of the process.                        *)

RejectIntent(r) ==
    /\ pc[r] = "ready"
    /\ Close(r, "unsafe_intent_rejected", "UNSAFE_INTENT")
    /\ UNCHANGED <<serverVars, lockVars, proc, diskVars>>

Started(r) == event' = [event EXCEPT ![r] = "agent_invocation_started"]

RunUnlocked(r) ==
    /\ pc[r] = "ready" /\ ~session
    /\ Goto(r, "starting")
    /\ Started(r)
    /\ UNCHANGED <<serverVars, table, lockVars, cancel, runVars, diskVars, reply>>

\* Mutant: a newcomer overtakes a woken waiter.
CanTakeNow_Barging(r) == LockOf(r) \notin locked


CanTakeNow(r) ==
    /\ LockOf(r) \notin locked
    /\ \A q \in Waiters(LockOf(r)) : fut[q] = "cancelled"

AcquireFree(r) ==
    /\ pc[r] = "ready" /\ session
    /\ CanTakeNow(r)
    /\ locked' = locked \cup {LockOf(r)}
    /\ Goto(r, "starting")
    /\ Started(r)
    /\ UNCHANGED <<serverVars, table, ahead, fut, cancel, runVars, diskVars, reply>>

Enqueue(r) ==
    /\ pc[r] = "ready" /\ session
    /\ ~CanTakeNow(r)
    /\ ahead' = [ahead EXCEPT ![r] = Waiters(LockOf(r))]
    /\ fut' = [fut EXCEPT ![r] = "pending"]
    /\ Goto(r, "waiting")
    /\ Started(r)
    /\ UNCHANGED <<serverVars, table, locked, cancel, runVars, diskVars, reply>>

\* The woken task runs: it leaves the deque and sets the flag unseen.
Grant(r) ==
    /\ pc[r] = "waiting" /\ fut[r] = "set" /\ cancel[r] = "no"
    /\ locked' = locked \cup {LockOf(r)}
    /\ ahead' = Dequeued(r)
    /\ fut' = [fut EXCEPT ![r] = "none"]
    /\ Goto(r, "starting")
    /\ UNCHANGED <<serverVars, table, cancel, runVars, diskVars, outVars>>

\* Task.cancel(): a pending future is cancelled; on one already set it only
\* marks the task.
CancelFuture(r) ==
    fut' = [fut EXCEPT ![r] = IF fut[r] = "pending" THEN "cancelled" ELSE @]

WaitTimer(r) ==
    /\ pc[r] = "waiting" /\ cancel[r] = "no"
    /\ cancel' = [cancel EXCEPT ![r] = "timeout"]
    /\ CancelFuture(r)
    /\ UNCHANGED <<serverVars, pc, table, locked, ahead, runVars, diskVars, outVars>>

CancelWait(r) ==
    /\ pc[r] = "waiting" /\ cancel[r] # "cancel"
    /\ cancel' = [cancel EXCEPT ![r] = "cancel"]
    /\ CancelFuture(r)
    /\ UNCHANGED <<serverVars, pc, table, locked, ahead, runVars, diskVars, outVars>>

\* Mutant: a woken waiter that gives up keeps the wake-up to itself.
Unwind_Swallows(r) ==
    /\ pc[r] = "waiting" /\ cancel[r] # "no"
    /\ ahead' = Dequeued(r)
    /\ fut' = [fut EXCEPT ![r] = "none"]
    /\ \/ cancel[r] = "timeout" /\ Close(r, "user_busy", "BUSY")
       \/ cancel[r] = "cancel" /\ Abort(r)
    /\ UNCHANGED <<serverVars, locked, proc, diskVars>>

\* Mutant: BUSY is answered without an audit event.
Unwind_Unlogged(r) ==
    /\ pc[r] = "waiting" /\ cancel[r] # "no"
    /\ ahead' = Dequeued(r)
    /\ LET W == IF LockOf(r) \in locked THEN {} ELSE Woken(r, LockOf(r))
       IN  fut' = [SetFutures(W) EXCEPT ![r] = "none"]
    /\ \/ cancel[r] = "timeout" /\ Close(r, event[r], "BUSY")
       \/ cancel[r] = "cancel" /\ Abort(r)
    /\ UNCHANGED <<serverVars, locked, proc, diskVars>>

\* The cancelled task runs: it leaves the deque, passes on a wake-up meant
\* for it, and answers BUSY or, cancelled from outside, vanishes.
Unwind(r) ==
    /\ pc[r] = "waiting" /\ cancel[r] # "no"
    /\ ahead' = Dequeued(r)
    /\ LET W == IF LockOf(r) \in locked THEN {} ELSE Woken(r, LockOf(r))
       IN  fut' = [SetFutures(W) EXCEPT ![r] = "none"]
    /\ \/ cancel[r] = "timeout" /\ Close(r, "user_busy", "BUSY")
       \/ cancel[r] = "cancel" /\ Abort(r)
    /\ UNCHANGED <<serverVars, locked, proc, diskVars>>

-----------------------------------------------------------------------------
(* ClaudeCodeRunner.run and _exec.  "starting" is the stretch from taking  *)
(* the lock to the end of the await on create_subprocess_exec.             *)

Spawn(r) ==
    /\ Goto(r, "running")
    /\ attempt' = [attempt EXCEPT ![r] = @ + 1]
    /\ proc' = [proc EXCEPT ![r] = "starting"]

\* The first exec: the prompt is built from the registry (a RegistryError
\* only empties it) and the session mode guessed from the transcript.
StartFirst(r) ==
    /\ pc[r] = "starting" /\ attempt[r] = 0
    /\ registry \in {"ok", "malformed"}
    /\ resume' = [resume EXCEPT ![r] = session /\ UserOf[r] \in transcript]
    /\ Spawn(r)
    /\ UNCHANGED <<serverVars, table, lockVars, cancel, diskVars, outVars>>

StartRetry(r) ==
    /\ pc[r] = "starting" /\ attempt[r] > 0
    /\ Spawn(r)
    /\ UNCHANGED <<serverVars, table, lockVars, cancel, resume, diskVars, outVars>>

\* Mutant: the lock is not released when the launch fails.
SpawnFails_Leaks(r) ==
    /\ pc[r] = "starting"
    /\ attempt[r] = 0 => registry # "undecodable"
    /\ Close(r, "spawn_failed", "AGENT_FAILED")
    /\ UNCHANGED <<serverVars, lockVars, proc, diskVars>>

\* OSError from the registry read or from the exec.
SpawnFails(r) ==
    /\ pc[r] = "starting"
    /\ attempt[r] = 0 => registry # "undecodable"
    /\ Release(r)
    /\ Close(r, "spawn_failed", "AGENT_FAILED")
    /\ UNCHANGED <<serverVars, proc, diskVars>>

\* Mutant: the lock is released on the expected exceptions only.
PromptRaises_Leaks(r) ==
    /\ pc[r] = "starting" /\ attempt[r] = 0 /\ registry = "undecodable"
    /\ Close(r, event[r], "HTTP_500")
    /\ UNCHANGED <<serverVars, lockVars, proc, diskVars>>

\* A registry that is not UTF-8 raises what nobody catches.
PromptRaises(r) ==
    /\ pc[r] = "starting" /\ attempt[r] = 0 /\ registry = "undecodable"
    /\ Release(r)
    /\ Close(r, event[r], "HTTP_500")
    /\ UNCHANGED <<serverVars, proc, diskVars>>

\* Mutant: the mode is flipped as often as the CLI complains.
Flip_Unbounded(r) ==
    /\ pc[r] = "running" /\ proc[r] \in {"state", "marker"} /\ session
    /\ resume' = [resume EXCEPT ![r] = ~@]
    /\ proc' = [proc EXCEPT ![r] = "none"]
    /\ Goto(r, "starting")
    /\ UNCHANGED <<serverVars, table, lockVars, cancel, attempt, diskVars, outVars>>

\* The process exited and communicate() returned: flip the mode once on a
\* session-state error, otherwise hand the result back.
Flip(r) ==
    /\ pc[r] = "running" /\ proc[r] \in {"state", "marker"}
    /\ session /\ attempt[r] = 1
    /\ resume' = [resume EXCEPT ![r] = ~@]
    /\ proc' = [proc EXCEPT ![r] = "none"]
    /\ Goto(r, "starting")
    /\ UNCHANGED <<serverVars, table, lockVars, cancel, attempt, diskVars, outVars>>

\* What Orchestrator.run makes of a run that did not time out: its last event
\* and its answer.  Of SQL at which sqlglot raises another error than ParseError
\* validate makes no report; nobody catches the error, and the event before it
\* remains the last.
Verdict == [o \in Outputs |->
    CASE o = "sql"        -> <<"sql_generated", "SQL">>
      [] o = "unsafe_sql" -> <<"safety_violation", "VALIDATION_FAILED">>
      [] o = "unread_sql" -> <<"agent_invocation_completed", "HTTP_500">>
      [] o = "chat"       -> <<"chat_reply", "CHAT">>
      [] o = "nothing"    -> <<"no_sql_block", "NO_SQL_PRODUCED">>
      [] OTHER            -> <<"non_zero_exit", "AGENT_FAILED">>]

\* The reply to valid SQL names its Metabase databases, from the registry
\* as it is by then: an unreadable one raises after sql_generated is logged.
ReplyTo(o) ==
    IF o = "sql" /\ registry \in {"unreadable", "undecodable"}
    THEN "HTTP_500" ELSE Verdict[o][2]

Finish(r) ==
    /\ pc[r] = "running" /\ proc[r] \in Outputs
    /\ ~(session /\ attempt[r] = 1 /\ proc[r] \in {"state", "marker"})
    /\ Release(r)
    /\ proc' = [proc EXCEPT ![r] = "none"]
    /\ Close(r, Verdict[proc[r]][1], ReplyTo(proc[r]))
    /\ UNCHANGED <<serverVars, diskVars>>

Kill(r) == proc' = [proc EXCEPT ![r] = IF @ \in Live THEN "killed" ELSE @]

\* Mutant: a timed-out run is answered and its process left alone.
RunTimer_NoKill(r) ==
    /\ pc[r] = "running"
    /\ Release(r)
    /\ Close(r, "timeout", "TIMEOUT")
    /\ UNCHANGED <<serverVars, proc, diskVars>>


RunTimer(r) ==
    /\ pc[r] = "running"
    /\ Kill(r)
    /\ Goto(r, "killing")
    /\ UNCHANGED <<serverVars, table, lockVars, cancel, attempt, resume, diskVars, outVars>>

\* The timer fires when the process is gone but communicate() has yet to
\* return: kill() raises ProcessLookupError, an OSError.
RunTimerTooLate(r) ==
    /\ pc[r] = "running" /\ proc[r] \in Outputs
    /\ Release(r)
    /\ proc' = [proc EXCEPT ![r] = "none"]
    /\ Close(r, "spawn_failed", "AGENT_FAILED")
    /\ UNCHANGED <<serverVars, diskVars>>

\* Mutant: a cancelled run does not kill its process.
CancelRun_Orphans(r) ==
    /\ pc[r] \in {"running", "killing"} /\ cancel[r] = "no"
    /\ Release(r)
    /\ Abort(r)
    /\ UNCHANGED <<serverVars, proc, diskVars>>


CancelRun(r) ==
    /\ pc[r] \in {"running", "killing"} /\ cancel[r] = "no"
    /\ cancel' = [cancel EXCEPT ![r] = "cancel"]
    /\ Kill(r)
    /\ Goto(r, "killing")
    /\ UNCHANGED <<serverVars, table, lockVars, attempt, resume, diskVars, outVars>>

\* Cancelled inside create_subprocess_exec, which closes what it spawned.
CancelStart(r) ==
    /\ pc[r] = "starting"
    /\ Release(r)
    /\ Abort(r)
    /\ UNCHANGED <<serverVars, proc, diskVars>>

\* Mutant: the lock is not released after a kill.
Reap_Leaks(r) ==
    /\ pc[r] = "killing"
    /\ proc' = [proc EXCEPT ![r] = "none"]
    /\ \/ cancel[r] = "no" /\ Close(r, "timeout", "TIMEOUT")
       \/ cancel[r] = "cancel" /\ Abort(r)
    /\ UNCHANGED <<serverVars, lockVars, diskVars>>

\* proc.wait() returns after a kill.
Reap(r) ==
    /\ pc[r] = "killing"
    /\ Release(r)
    /\ proc' = [proc EXCEPT ![r] = "none"]
    /\ \/ cancel[r] = "no" /\ Close(r, "timeout", "TIMEOUT")
       \/ cancel[r] = "cancel" /\ Abort(r)
    /\ UNCHANGED <<serverVars, diskVars>>

-----------------------------------------------------------------------------
(* The `claude` process (external): it checks its session flag against the *)
(* transcript on disk, then works until it exits.                          *)

ClaudeOpens(r) ==
    /\ proc[r] = "starting"
    /\ \/ /\ ~session
          /\ proc' = [proc EXCEPT ![r] = "writing"]
          /\ UNCHANGED transcript
       \/ /\ session /\ resume[r] = (UserOf[r] \in transcript)
          /\ proc' = [proc EXCEPT ![r] = "writing"]
          /\ transcript' = transcript \cup {UserOf[r]}
       \/ /\ session /\ resume[r] # (UserOf[r] \in transcript)
          /\ proc' = [proc EXCEPT ![r] = IF pc[r] = "lost" THEN "none" ELSE "state"]
          /\ UNCHANGED transcript
    /\ UNCHANGED <<serverVars, pc, table, lockVars, cancel, attempt, resume, registry, outVars>>

ClaudeExits(r) ==
    /\ proc[r] = "writing"
    /\ \E o \in Output \ {"state"} :
          proc' = [proc EXCEPT ![r] = IF pc[r] = "lost" THEN "none" ELSE o]
    /\ UNCHANGED <<serverVars, pc, table, lockVars, cancel, attempt, resume, diskVars, outVars>>

\* cleanupPeriodDays: the transcript expires.
Expire(u) ==
    /\ u \in transcript
    /\ transcript' = transcript \ {u}
    /\ UNCHANGED <<serverVars, pc, table, lockVars, cancel, runVars, registry, outVars>>

\* The registry file is edited beneath the server.
EditRegistry(s) ==
    /\ registry # s
    /\ registry' = s
    /\ UNCHANGED <<serverVars, pc, table, lockVars, cancel, runVars, transcript, outVars>>

-----------------------------------------------------------------------------
(* The server process is killed outright and started again (README.md runs *)
(* it in a terminal or under a process manager).                           *)

InFlight == {"building", "ready", "waiting"} \cup InRunner

Crash ==
    /\ up /\ crashes < MaxCrashes
    /\ up' = FALSE
    /\ crashes' = crashes + 1
    /\ cache' = None
    /\ pc' = [r \in Request |-> IF pc[r] \in InFlight THEN "lost" ELSE pc[r]]
    /\ locked' = {}
    /\ ahead' = [r \in Request |-> {}]
    /\ fut' = [r \in Request |-> "none"]
    /\ cancel' = [r \in Request |-> "no"]
    /\ table' = [r \in Request |-> None]
    /\ attempt' = [r \in Request |-> 0]
    /\ proc' = [r \in Request |-> IF proc[r] \in Live THEN proc[r] ELSE "none"]
    /\ resume' = [r \in Request |-> resume[r] /\ proc[r] \in Live]
    /\ UNCHANGED <<session, diskVars, outVars>>

Restart ==
    /\ ~up
    /\ up' = TRUE
    /\ UNCHANGED <<session, crashes, cache, pc, table, lockVars, cancel, runVars, diskVars, outVars>>

Step(r) ==
    \/ LocksFromCache(r) \/ LocksMiss(r) \/ LocksBuilt(r)
    \/ RejectIntent(r) \/ RunUnlocked(r) \/ AcquireFree(r) \/ Enqueue(r)
    \/ Grant(r) \/ WaitTimer(r) \/ CancelWait(r) \/ Unwind(r)
    \/ StartFirst(r) \/ StartRetry(r) \/ SpawnFails(r) \/ PromptRaises(r)
    \/ Flip(r) \/ Finish(r) \/ RunTimer(r) \/ RunTimerTooLate(r)
    \/ CancelRun(r) \/ CancelStart(r) \/ Reap(r)
    \/ ClaudeOpens(r) \/ ClaudeExits(r)

Next ==
    \/ \E r \in Request : Step(r)
    \/ \E u \in User : Expire(u)
    \/ \E s \in RegistryState : EditRegistry(s)
    \/ Crash
    \/ Restart

Spec == Init /\ [][Next]_vars

(* The event loop runs every task that can run, timers of a run expire,    *)
(* the pool finishes what it started, and a killed server is restarted.    *)
(* Nothing is assumed of `claude`, of cancellations or of lock-wait timers.*)
Task(r) ==
    \/ LocksBuilt(r)
    \/ RejectIntent(r) \/ RunUnlocked(r) \/ AcquireFree(r) \/ Enqueue(r)
    \/ Grant(r) \/ Unwind(r)
    \/ StartFirst(r) \/ StartRetry(r) \/ SpawnFails(r) \/ PromptRaises(r)
    \/ Flip(r) \/ Finish(r) \/ Reap(r)

Fairness ==
    /\ \A r \in Request : WF_vars(Task(r)) /\ WF_vars(RunTimer(r))
    /\ WF_vars(Restart)

FairSpec == Spec /\ Fairness

-----------------------------------------------------------------------------
(* Properties.                                                             *)

Holds(r) == session /\ pc[r] \in InRunner

\* Two requests under the same lock object are never both between acquire
\* and release (orchestrator.py:178-204).
LockExclusion ==
    \A p, q \in Request :
        p # q /\ Holds(p) /\ Holds(q) => LockOf(p) # LockOf(q)

\* A lock is taken exactly while a request is inside the runner with it: no
\* path out of the runner (result, OSError, other exception, timeout,
\* cancellation, retry) leaks it or gives it back early.
LockAccounted == locked = {LockOf(r) : r \in {q \in Request : Holds(q)}}

\* A waiter told that the lock is its own is the first in the queue and
\* finds the lock free, so that setting the flag without looking is right
\* and nobody overtakes it.
WokenIsHead ==
    \A r \in Request :
        fut[r] = "set" => ahead[r] = {} /\ LockOf(r) \notin locked

\* While a lock is free and requests wait for it, the first of them has been
\* woken or is about to leave and pass the wake-up on: no time-out or
\* cancellation of a woken waiter loses the wake-up.
NoLostWakeup ==
    \A r \in Request :
        pc[r] = "waiting" /\ ahead[r] = {} /\ LockOf(r) \notin locked
            => fut[r] \in {"set", "cancelled"}

LiveProcess(r) == proc[r] \in Live

\* Two `claude` processes are live on one user's session only if one of them
\* outlived a killed server, or their requests got different UserLocks
\* instances: within one instance the session is never resumed twice
\* (session.py:50-51).
ResumeExclusive ==
    \A p, q \in Request :
        /\ session /\ p # q /\ UserOf[p] = UserOf[q]
        /\ LiveProcess(p) /\ LiveProcess(q)
        => \/ "lost" \in {pc[p], pc[q]}
           \/ None \notin {table[p], table[q]} /\ table[p] # table[q]

\* A `claude` process is live only under a request that is still running it,
\* or under one lost with the server: neither a timeout nor a cancellation
\* orphans one (agent_runner.py:155-162).
NoStrayProcess ==
    \A r \in Request : LiveProcess(r) => pc[r] \in {"running", "lost"}

\* The last audit event of an answered request tells which answer it was, but
\* for the bare HTTP 500 of a registry that is unreadable after the SQL has been
\* logged: a start tells that it was not readable for the prompt, a completion
\* that validating the SQL raised (orchestrator.py:152-359).
AuditTellsReply ==
    \A r \in Request : pc[r] = "done" =>
        CASE event[r] = "unsafe_intent_rejected" -> reply[r] = "UNSAFE_INTENT"
          [] event[r] = "user_busy"        -> reply[r] = "BUSY"
          [] event[r] = "timeout"          -> reply[r] = "TIMEOUT"
          [] event[r] \in {"spawn_failed", "non_zero_exit"} -> reply[r] = "AGENT_FAILED"
          [] event[r] = "chat_reply"       -> reply[r] = "CHAT"
          [] event[r] = "no_sql_block"     -> reply[r] = "NO_SQL_PRODUCED"
          [] event[r] = "safety_violation" -> reply[r] = "VALIDATION_FAILED"
          [] event[r] = "sql_generated"    -> reply[r] \in {"SQL", "HTTP_500"}
          [] OTHER -> /\ event[r] \in {"agent_invocation_started", "agent_invocation_completed"}
                      /\ reply[r] = "HTTP_500"

\* Every request that reached the orchestrator is answered, unless it is
\* cancelled or the server is killed, although no lock-wait timer need fire:
\* the lock always comes round to the waiter.
Answered ==
    \A r \in Request : pc[r] = "ready" ~> pc[r] \in {"done", "aborted", "lost"}

\* No user is locked out: a taken lock is given back.
LockFreed ==
    \A l \in LockId : l \in locked ~> l \notin locked

-----------------------------------------------------------------------------
(* What the code's comments say and the code does not do.                  *)

\* "the same user's session is never resumed by two concurrent `claude`
\* processes" (session.py:50-51), here with a server never killed.
SessionExclusive ==
    \A p, q \in Request :
        session /\ p # q /\ LiveProcess(p) /\ LiveProcess(q)
            => UserOf[p] # UserOf[q]

\* "claude binary missing, bad project dir" (orchestrator.py:208): that the
\* agent failed to launch is reported only by a request still launching it.
SpawnFailedWhileLaunching ==
    [][\A r \in Request :
        event[r] # "spawn_failed" /\ event'[r] = "spawn_failed"
            => pc[r] = "starting"]_vars
============================================================================
