------------------------- MODULE AgentServerProofs -------------------------
(* Proofs about AgentServer, for every value of its constants.             *)
EXTENDS AgentServer, TLAPS

-----------------------------------------------------------------------------
(* Type correctness needs two facts more: a request past its dependencies  *)
(* has a UserLocks instance, and one exec at most lies behind a request    *)
(* that is about to spawn.                                                 *)

Wired ==
    \A r \in Request :
        pc[r] \in {"ready", "waiting"} \cup InRunner => table[r] \in Request

RetryBounded ==
    \A r \in Request : pc[r] \notin {"running", "killing"} => attempt[r] < 2

TypeInv == TypeOK /\ Wired /\ RetryBounded

LEMMA VerdictType ==
    \A o \in Outputs : Verdict[o][1] \in Event /\ ReplyTo(o) \in Reply
BY DEF Verdict, Outputs, Event, ReplyTo, Reply

LEMMA TypeInit == Init => TypeInv
BY UserOfAssumption, SessionModesAssumption, BoundsAssumption, RegistryAssumption
DEF Init, TypeInv, TypeOK, Wired, RetryBounded, InRunner, PC, Proc, Event, Reply, LockId

\* Steps of a request keep it.
LEMMA TypeStep ==
    ASSUME TypeInv, NEW r \in Request, Step(r)
    PROVE  TypeInv'
<1> USE UserOfAssumption, BoundsAssumption, OutputAssumption, NoneAssumption
<1> USE DEF TypeInv, TypeOK, Wired, RetryBounded, PC, InRunner,
            serverVars, lockVars, runVars, diskVars, outVars, Goto
<1>1. CASE LocksFromCache(r)
  BY <1>1 DEF LocksFromCache
<1>2. CASE LocksMiss(r)
  BY <1>2 DEF LocksMiss
<1>3. CASE LocksBuilt(r)
  BY <1>3 DEF LocksBuilt
<1>4. CASE RejectIntent(r)
  BY <1>4 DEF RejectIntent, Close, LocalsGone, Event, Reply
<1>5. CASE RunUnlocked(r)
  BY <1>5 DEF RunUnlocked, Started, Event
<1>6. CASE AcquireFree(r)
  BY <1>6 DEF AcquireFree, Started, Event, LockOf, LockId
<1>7. CASE Enqueue(r)
  BY <1>7 DEF Enqueue, Started, Event, Waiters
<1>8. CASE Grant(r)
  BY <1>8 DEF Grant, Dequeued, LockOf, LockId
<1>9. CASE WaitTimer(r)
  BY <1>9 DEF WaitTimer, CancelFuture
<1>10. CASE CancelWait(r)
  BY <1>10 DEF CancelWait, CancelFuture
<1>11. CASE Unwind(r)
  <2>1. ahead' \in [Request -> SUBSET Request]
    BY <1>11 DEF Unwind, Dequeued
  <2>2. fut' \in [Request -> {"none", "pending", "set", "cancelled"}]
    <3>1. \A W : [SetFutures(W) EXCEPT ![r] = "none"]
                   \in [Request -> {"none", "pending", "set", "cancelled"}]
      BY DEF SetFutures
    <3> QED
      BY <1>11, <3>1 DEF Unwind
  <2>3. CASE cancel[r] = "timeout" /\ Close(r, "user_busy", "BUSY")
    BY <1>11, <2>1, <2>2, <2>3 DEF Unwind, Close, LocalsGone, Event, Reply
  <2>4. CASE cancel[r] = "cancel" /\ Abort(r)
    BY <1>11, <2>1, <2>2, <2>4 DEF Unwind, Abort, LocalsGone
  <2> QED
    BY <1>11, <2>3, <2>4 DEF Unwind
<1>12. CASE StartFirst(r)
  BY <1>12 DEF StartFirst, Spawn, Proc, Live
<1>13. CASE StartRetry(r)
  BY <1>13 DEF StartRetry, Spawn, Proc, Live
<1>14. CASE SpawnFails(r)
  BY <1>14 DEF SpawnFails, Release, SetFutures, Close, LocalsGone, Event, Reply
<1>15. CASE PromptRaises(r)
  BY <1>15 DEF PromptRaises, Release, SetFutures, Close, LocalsGone, Event, Reply
<1>16. CASE Flip(r)
  BY <1>16 DEF Flip, Proc
<1>17. CASE Finish(r)
  BY <1>17, VerdictType DEF Finish, Release, SetFutures, Close, LocalsGone, Proc
<1>18. CASE RunTimer(r)
  BY <1>18 DEF RunTimer, Kill, Proc
<1>19. CASE RunTimerTooLate(r)
  BY <1>19 DEF RunTimerTooLate, Release, SetFutures, Close, LocalsGone, Proc, Event, Reply
<1>20. CASE CancelRun(r)
  BY <1>20 DEF CancelRun, Kill, Proc
<1>21. CASE CancelStart(r)
  BY <1>21 DEF CancelStart, Release, SetFutures, Abort, LocalsGone
<1>22. CASE Reap(r)
  <2>1. /\ locked' \subseteq LockId
        /\ ahead' = ahead
        /\ fut' \in [Request -> {"none", "pending", "set", "cancelled"}]
        /\ proc' \in [Request -> Proc]
    BY <1>22 DEF Reap, Release, SetFutures, Proc
  <2>2. CASE cancel[r] = "no" /\ Close(r, "timeout", "TIMEOUT")
    BY <1>22, <2>1, <2>2 DEF Reap, Close, LocalsGone, Event, Reply
  <2>3. CASE cancel[r] = "cancel" /\ Abort(r)
    BY <1>22, <2>1, <2>3 DEF Reap, Abort, LocalsGone
  <2> QED
    BY <1>22, <2>2, <2>3 DEF Reap
<1>23. CASE ClaudeOpens(r)
  <2>1. proc' \in [Request -> Proc] /\ transcript' \subseteq User
    BY <1>23 DEF ClaudeOpens, Proc, Live, Outputs
  <2> QED
    BY <1>23, <2>1 DEF ClaudeOpens
<1>24. CASE ClaudeExits(r)
  BY <1>24 DEF ClaudeExits, Proc
<1> QED
  BY <1>1, <1>2, <1>3, <1>4, <1>5, <1>6, <1>7, <1>8, <1>9, <1>10, <1>11, <1>12,
     <1>13, <1>14, <1>15, <1>16, <1>17, <1>18, <1>19, <1>20, <1>21, <1>22, <1>23,
     <1>24
  DEF Step

LEMMA TypeNext == TypeInv /\ [Next]_vars => TypeInv'
<1> SUFFICES ASSUME TypeInv, [Next]_vars
             PROVE  TypeInv'
  OBVIOUS
<1> USE DEF TypeInv, TypeOK, Wired, RetryBounded, PC, InRunner,
            serverVars, lockVars, runVars, diskVars, outVars
<1>1. CASE \E r \in Request : Step(r)
  BY <1>1, TypeStep
<1>2. CASE \E u \in User : Expire(u)
  BY <1>2 DEF Expire
<1>3. CASE \E s \in RegistryState : EditRegistry(s)
  BY <1>3 DEF EditRegistry
<1>4. CASE Crash
  <2>1. crashes' \in 0..MaxCrashes
    BY <1>4, BoundsAssumption DEF Crash
  <2>2. pc' \in [Request -> PC] /\ proc' \in [Request -> Proc]
    BY <1>4 DEF Crash, Proc
  <2>3. resume' \in [Request -> BOOLEAN]
    <3>1. \A r \in Request : (resume[r] /\ proc[r] \in Live) \in BOOLEAN
      OBVIOUS
    <3> QED
      BY <1>4, <3>1 DEF Crash
  <2>4. \A r \in Request : pc'[r] \notin {"ready", "waiting"} \cup InRunner
    BY <1>4 DEF Crash, InFlight
  <2>5. /\ table' = [r \in Request |-> None]
        /\ attempt' = [r \in Request |-> 0]
        /\ ahead' = [r \in Request |-> {}]
        /\ fut' = [r \in Request |-> "none"]
        /\ cancel' = [r \in Request |-> "no"]
        /\ up' \in BOOLEAN /\ cache' = None /\ locked' = {}
        /\ UNCHANGED <<session, diskVars, outVars>>
    BY <1>4 DEF Crash
  <2>6. Wired' /\ RetryBounded'
    BY <2>4, <2>5
  <2>7. /\ table' \in [Request -> Request \cup {None}]
        /\ attempt' \in [Request -> 0..2]
        /\ ahead' \in [Request -> SUBSET Request]
        /\ fut' \in [Request -> {"none", "pending", "set", "cancelled"}]
        /\ cancel' \in [Request -> {"no", "timeout", "cancel"}]
    BY <2>5
  <2>8. TypeOK'
    BY <2>1, <2>2, <2>3, <2>5, <2>7, Zenon
  <2> QED
    BY <2>6, <2>8
<1>5. CASE Restart
  BY <1>5 DEF Restart
<1>6. CASE UNCHANGED vars
  BY <1>6 DEF vars
<1> QED
  BY <1>1, <1>2, <1>3, <1>4, <1>5, <1>6 DEF Next

\* Every variable keeps its type, whatever the requests, users and bounds.
THEOREM TypeCorrect == Spec => []TypeOK
<1>1. TypeInv => TypeOK
  BY DEF TypeInv
<1> QED
  BY <1>1, TypeInit, TypeNext, PTL DEF Spec

-----------------------------------------------------------------------------
(* The per-user locks.  LockExclusion is not inductive: Grant sets the     *)
(* flag without looking, so it needs that a woken waiter is alone at the   *)
(* head of the queue of a free lock (WokenIsHead), which in turn needs     *)
(* that the flag is set exactly while someone holds the lock               *)
(* (LockAccounted) and that ahead orders the waiters of a lock (QueueInv). *)

QueueInv ==
    /\ \A r \in Request :
          /\ fut[r] # "none" <=> pc[r] = "waiting"
          /\ pc[r] = "waiting" => session
          /\ ahead[r] \subseteq (IF pc[r] = "waiting" THEN Waiters(LockOf(r)) \ {r} ELSE {})
    /\ \A p, q \in Request :
          p # q /\ pc[p] = "waiting" /\ pc[q] = "waiting" /\ LockOf(p) = LockOf(q)
              => p \in ahead[q] \/ q \in ahead[p]

Locks == QueueInv /\ LockExclusion /\ LockAccounted /\ WokenIsHead /\ NoLostWakeup

LockInv == TypeInv /\ Locks

LEMMA LocksInit == Init => Locks
BY DEF Init, Locks, QueueInv, LockExclusion, LockAccounted, WokenIsHead,
       NoLostWakeup, Holds, InRunner

\* A step that takes nobody into or out of the runner or the queue.
LEMMA LocksFrame ==
    ASSUME TypeInv, Locks, TypeInv',
           UNCHANGED <<session, locked, ahead, fut>>,
           \A q \in Request :
              /\ pc'[q] \in InRunner <=> pc[q] \in InRunner
              /\ pc'[q] = "waiting" <=> pc[q] = "waiting"
              /\ pc[q] \in InRunner \cup {"waiting"} => table'[q] = table[q]
    PROVE  Locks'
<1>1. \A q \in Request : Holds(q)' <=> Holds(q)
  BY DEF Holds
<1>2. \A q \in Request : Holds(q) \/ pc[q] = "waiting" => LockOf(q)' = LockOf(q)
  BY DEF Holds, LockOf
<1>3. \A q \in Request : pc[q] = "waiting" => Waiters(LockOf(q))' = Waiters(LockOf(q))
  BY <1>2 DEF Waiters
<1>4. QueueInv'
  BY <1>2, <1>3 DEF Locks, QueueInv
<1>5. LockExclusion'
  BY <1>1, <1>2 DEF Locks, LockExclusion
<1>6. LockAccounted'
  BY <1>1, <1>2 DEF Locks, LockAccounted
<1>7. WokenIsHead' /\ NoLostWakeup'
  BY <1>2 DEF Locks, QueueInv, WokenIsHead, NoLostWakeup
<1> QED
  BY <1>4, <1>5, <1>6, <1>7 DEF Locks

\* A request leaves the runner through Release.
LEMMA LocksLeave ==
    ASSUME TypeInv, Locks, TypeInv', NEW r \in Request,
           pc[r] \in InRunner, Release(r), session' = session,
           pc'[r] \in {"done", "aborted"},
           \A q \in Request \ {r} : pc'[q] = pc[q] /\ table'[q] = table[q]
    PROVE  Locks'
<1> USE DEF Locks
<1> DEFINE L == LockOf(r)
<1>1. \A q \in Request : Holds(q)' <=> Holds(q) /\ q # r
  BY DEF Holds, InRunner
<1>2. \A q \in Request \ {r} : LockOf(q)' = LockOf(q)
  BY DEF LockOf
<1>3. CASE ~session
  <2>1. \A q \in Request : pc[q] # "waiting" /\ pc'[q] # "waiting" /\ ~Holds(q) /\ ~Holds(q)'
    BY <1>1, <1>3 DEF QueueInv, Holds
  <2>2. UNCHANGED <<locked, ahead, fut>>
    BY <1>3 DEF Release, lockVars
  <2> QED
    BY <2>1, <2>2 DEF QueueInv, LockExclusion, LockAccounted, WokenIsHead, NoLostWakeup
<1>4. CASE session
  <2>1. L \in locked /\ Holds(r)
    BY <1>4 DEF LockAccounted, Holds
  <2>2. /\ locked' = locked \ {L}
        /\ fut' = SetFutures(Woken(r, L))
        /\ ahead' = ahead
    BY <1>4 DEF Release
  <2>3. \A q \in Request : pc'[q] = "waiting" <=> pc[q] = "waiting"
    BY DEF InRunner
  <2>4. \A q \in Request : r \notin ahead[q]
    BY DEF QueueInv, Waiters, InRunner
  <2>5. Woken(r, L) = {q \in Request : /\ pc[q] = "waiting" /\ LockOf(q) = L
                                       /\ ahead[q] = {} /\ fut[q] = "pending"}
    BY <2>4 DEF Woken, Waiters, InRunner
  <2>6. \A q \in Request : fut'[q] = IF /\ pc[q] = "waiting" /\ LockOf(q) = L
                                        /\ ahead[q] = {} /\ fut[q] = "pending"
                                     THEN "set" ELSE fut[q]
    BY <2>2, <2>5 DEF SetFutures
  <2>7. QueueInv'
    <3>1. \A q \in Request : pc[q] = "waiting" => Waiters(LockOf(q))' = Waiters(LockOf(q))
      BY <1>2, <2>3 DEF Waiters, InRunner
    <3> QED
      BY <1>2, <1>4, <2>2, <2>3, <2>6, <3>1 DEF QueueInv, InRunner
  <2>8. LockExclusion'
    BY <1>1, <1>2 DEF LockExclusion
  <2>9. LockAccounted'
    BY <1>1, <1>2, <2>1, <2>2 DEF LockAccounted, LockExclusion
  <2>10. WokenIsHead'
    BY <1>2, <2>2, <2>3, <2>6 DEF WokenIsHead, QueueInv, InRunner
  <2>11. NoLostWakeup'
    BY <1>2, <2>2, <2>3, <2>6 DEF NoLostWakeup, QueueInv, InRunner, TypeInv, TypeOK
  <2> QED
    BY <2>7, <2>8, <2>9, <2>10, <2>11
<1> QED
  BY <1>3, <1>4 DEF TypeInv, TypeOK

\* A request takes a free lock nobody has been promised.
LEMMA LocksAcquireFree ==
    ASSUME TypeInv, Locks, TypeInv', NEW r \in Request, AcquireFree(r)
    PROVE  Locks'
<1> USE DEF Locks
<1> DEFINE L == LockOf(r)
<1>1. /\ session /\ session' = session /\ pc[r] = "ready" /\ L \notin locked
      /\ \A q \in Waiters(L) : fut[q] = "cancelled"
      /\ locked' = locked \cup {L}
      /\ UNCHANGED <<table, ahead, fut>>
      /\ pc' = [pc EXCEPT ![r] = "starting"]
  BY DEF AcquireFree, CanTakeNow, Goto, serverVars
<1>2. \A q \in Request : pc'[q] = IF q = r THEN "starting" ELSE pc[q]
  BY <1>1 DEF TypeInv, TypeOK
<1>3. \A q \in Request : LockOf(q)' = LockOf(q)
  BY <1>1 DEF LockOf
<1>4. \A q \in Request : Holds(q)' <=> Holds(q) \/ q = r
  BY <1>1, <1>2 DEF Holds, InRunner
<1>5. ~Holds(r)
  BY <1>1 DEF Holds, InRunner
<1>6. QueueInv'
  <2>1. \A l : Waiters(l)' = Waiters(l)
    BY <1>1, <1>2, <1>3 DEF Waiters
  <2> QED
    BY <1>1, <1>2, <1>3, <2>1 DEF QueueInv
<1>7. LockExclusion'
  BY <1>1, <1>3, <1>4 DEF LockExclusion, LockAccounted
<1>8. LockAccounted'
  BY <1>1, <1>3, <1>4 DEF LockAccounted
<1>9. WokenIsHead'
  BY <1>1, <1>3 DEF WokenIsHead, QueueInv, Waiters
<1>10. NoLostWakeup'
  BY <1>1, <1>2, <1>3 DEF NoLostWakeup
<1> QED
  BY <1>6, <1>7, <1>8, <1>9, <1>10

\* A request joins the end of the queue.
LEMMA LocksEnqueue ==
    ASSUME TypeInv, Locks, TypeInv', NEW r \in Request, Enqueue(r)
    PROVE  Locks'
<1> USE DEF Locks
<1> DEFINE L == LockOf(r)
<1>1. /\ session /\ session' = session /\ pc[r] = "ready" /\ ~CanTakeNow(r)
      /\ ahead' = [ahead EXCEPT ![r] = Waiters(L)]
      /\ fut' = [fut EXCEPT ![r] = "pending"]
      /\ pc' = [pc EXCEPT ![r] = "waiting"]
      /\ UNCHANGED <<table, locked>>
  BY DEF Enqueue, Goto, serverVars
<1>2. \A q \in Request :
         /\ pc'[q] = IF q = r THEN "waiting" ELSE pc[q]
         /\ fut'[q] = IF q = r THEN "pending" ELSE fut[q]
         /\ ahead'[q] = IF q = r THEN Waiters(L) ELSE ahead[q]
  BY <1>1 DEF TypeInv, TypeOK
<1>3. \A q \in Request : LockOf(q)' = LockOf(q)
  BY <1>1 DEF LockOf
<1>4. \A q \in Request : Holds(q)' <=> Holds(q)
  BY <1>1, <1>2 DEF Holds, InRunner
<1>5. \A q \in Request : pc[q] = "waiting" => ahead[q] \subseteq Waiters(LockOf(q)) \ {q}
  BY DEF QueueInv
<1>6. QueueInv'
  <2>1. \A l : Waiters(l)' = IF l = L THEN Waiters(l) \cup {r} ELSE Waiters(l)
    BY <1>2, <1>3 DEF Waiters
  <2>2. r \notin Waiters(L) /\ \A q \in Request : r \notin ahead[q]
    BY <1>1 DEF Waiters, QueueInv
  <2>3. \A q \in Request :
           /\ fut'[q] # "none" <=> pc'[q] = "waiting"
           /\ pc'[q] = "waiting" => session'
    BY <1>1, <1>2 DEF QueueInv
  <2>4. \A q \in Request :
           ahead'[q] \subseteq (IF pc'[q] = "waiting" THEN Waiters(LockOf(q))' \ {q} ELSE {})
    BY <1>2, <1>3, <2>1, <2>2 DEF QueueInv
  <2>5. \A p, q \in Request :
           p # q /\ pc'[p] = "waiting" /\ pc'[q] = "waiting" /\ LockOf(p)' = LockOf(q)'
               => p \in ahead'[q] \/ q \in ahead'[p]
    <3>1. \A q \in Request : q # r /\ pc'[q] = "waiting" /\ LockOf(q)' = LockOf(r)'
             => q \in ahead'[r]
      BY <1>2, <1>3 DEF Waiters
    <3>2. \A p, q \in Request \ {r} :
             p # q /\ pc'[p] = "waiting" /\ pc'[q] = "waiting" /\ LockOf(p)' = LockOf(q)'
                 => p \in ahead'[q] \/ q \in ahead'[p]
      BY <1>2, <1>3 DEF QueueInv
    <3> QED
      BY <3>1, <3>2
  <2> QED
    BY <2>3, <2>4, <2>5 DEF QueueInv
<1>7. LockExclusion' /\ LockAccounted'
  BY <1>1, <1>3, <1>4 DEF LockExclusion, LockAccounted
<1>8. WokenIsHead'
  BY <1>1, <1>2, <1>3 DEF WokenIsHead
<1>9. NoLostWakeup'
  <2>1. Waiters(L) = {} => L \in locked
    BY <1>1 DEF CanTakeNow
  <2> QED
    BY <1>1, <1>2, <1>3, <2>1 DEF NoLostWakeup
<1> QED
  BY <1>6, <1>7, <1>8, <1>9

\* The woken waiter takes the lock it was promised.
LEMMA LocksGrant ==
    ASSUME TypeInv, Locks, TypeInv', NEW r \in Request, Grant(r)
    PROVE  Locks'
<1> USE DEF Locks
<1> DEFINE L == LockOf(r)
<1>1. /\ session' = session /\ pc[r] = "waiting" /\ fut[r] = "set"
      /\ locked' = locked \cup {L}
      /\ ahead' = Dequeued(r)
      /\ fut' = [fut EXCEPT ![r] = "none"]
      /\ pc' = [pc EXCEPT ![r] = "starting"]
      /\ table' = table
  BY DEF Grant, Goto, serverVars
<1>2. \A q \in Request :
         /\ pc'[q] = IF q = r THEN "starting" ELSE pc[q]
         /\ fut'[q] = IF q = r THEN "none" ELSE fut[q]
         /\ ahead'[q] = IF q = r THEN {} ELSE ahead[q] \ {r}
  BY <1>1 DEF TypeInv, TypeOK, Dequeued
<1>3. \A q \in Request : LockOf(q)' = LockOf(q)
  BY <1>1 DEF LockOf
<1>4. session /\ ahead[r] = {} /\ L \notin locked
  BY <1>1 DEF WokenIsHead, QueueInv
<1>5. \A q \in Request : Holds(q)' <=> Holds(q) \/ q = r
  BY <1>1, <1>2, <1>4 DEF Holds, InRunner
<1>6. QueueInv'
  <2>1. \A l : Waiters(l)' = Waiters(l) \ {r}
    BY <1>2, <1>3 DEF Waiters
  <2>2. \A q \in Request :
           /\ fut'[q] # "none" <=> pc'[q] = "waiting"
           /\ pc'[q] = "waiting" => session'
    BY <1>1, <1>2 DEF QueueInv
  <2>3. \A q \in Request :
           ahead'[q] \subseteq (IF pc'[q] = "waiting" THEN Waiters(LockOf(q))' \ {q} ELSE {})
    BY <1>2, <1>3, <2>1 DEF QueueInv
  <2>4. \A p, q \in Request :
           p # q /\ pc'[p] = "waiting" /\ pc'[q] = "waiting" /\ LockOf(p)' = LockOf(q)'
               => p \in ahead'[q] \/ q \in ahead'[p]
    <3> SUFFICES ASSUME NEW p \in Request, NEW q \in Request, p # q,
                        pc'[p] = "waiting", pc'[q] = "waiting", LockOf(p)' = LockOf(q)'
                 PROVE  p \in ahead'[q] \/ q \in ahead'[p]
      OBVIOUS
    <3>1. p # r /\ q # r /\ pc[p] = "waiting" /\ pc[q] = "waiting" /\ LockOf(p) = LockOf(q)
      BY <1>2, <1>3
    <3>2. p \in ahead[q] \/ q \in ahead[p]
      BY <3>1 DEF QueueInv
    <3> QED
      BY <1>2, <3>1, <3>2
  <2> QED
    BY <2>2, <2>3, <2>4 DEF QueueInv
<1>7. LockExclusion'
  BY <1>3, <1>4, <1>5 DEF LockExclusion, LockAccounted
<1>8. LockAccounted'
  BY <1>1, <1>3, <1>5 DEF LockAccounted
<1>9. WokenIsHead'
  <2>1. \A q \in Request \ {r} : fut[q] = "set" => LockOf(q) # L
    BY <1>1, <1>4 DEF WokenIsHead, QueueInv
  <2> QED
    BY <1>1, <1>2, <1>3, <2>1 DEF WokenIsHead
<1>10. NoLostWakeup'
  <2>1. \A q \in Request : pc[q] = "waiting" /\ LockOf(q) # L => r \notin ahead[q]
    BY DEF QueueInv, Waiters
  <2> QED
    BY <1>1, <1>2, <1>3, <2>1 DEF NoLostWakeup
<1> QED
  BY <1>6, <1>7, <1>8, <1>9, <1>10

\* A timer or a cancellation reaches a waiting task.
LEMMA LocksCancelFuture ==
    ASSUME TypeInv, Locks, TypeInv', NEW r \in Request,
           pc[r] = "waiting", CancelFuture(r),
           UNCHANGED <<session, pc, table, locked, ahead>>
    PROVE  Locks'
<1> USE DEF Locks
<1>1. \A q \in Request :
         fut'[q] = IF q = r /\ fut[r] = "pending" THEN "cancelled" ELSE fut[q]
  BY DEF CancelFuture, TypeInv, TypeOK
<1>2. \A q \in Request : LockOf(q)' = LockOf(q) /\ (Holds(q)' <=> Holds(q))
  BY DEF LockOf, Holds
<1>3. \A l : Waiters(l)' = Waiters(l)
  BY <1>2 DEF Waiters
<1>4. QueueInv'
  <2>1. \A q \in Request : fut'[q] # "none" <=> fut[q] # "none"
    BY <1>1
  <2> QED
    BY <1>2, <1>3, <2>1 DEF QueueInv
<1>5. LockExclusion' /\ LockAccounted'
  BY <1>2 DEF LockExclusion, LockAccounted
<1>6. WokenIsHead' /\ NoLostWakeup'
  BY <1>1, <1>2 DEF WokenIsHead, NoLostWakeup
<1> QED
  BY <1>4, <1>5, <1>6

\* A cancelled waiter leaves the queue and passes its wake-up on.
LEMMA LocksUnwind ==
    ASSUME TypeInv, Locks, TypeInv', NEW r \in Request, Unwind(r)
    PROVE  Locks'
<1> USE DEF Locks
<1> DEFINE L == LockOf(r)
           Heads == {q \in Request : /\ q # r /\ pc[q] = "waiting" /\ LockOf(q) = L
                                     /\ ahead[q] \subseteq {r} /\ fut[q] = "pending"}
<1>1. /\ session' = session /\ pc[r] = "waiting" /\ locked' = locked
      /\ ahead' = Dequeued(r)
      /\ fut' = [SetFutures(IF L \in locked THEN {} ELSE Woken(r, L)) EXCEPT ![r] = "none"]
      /\ pc'[r] \in {"done", "aborted"}
      /\ \A q \in Request \ {r} : pc'[q] = pc[q] /\ table'[q] = table[q]
  BY DEF Unwind, Close, Abort, LocalsGone, Goto, serverVars, TypeInv, TypeOK
<1>2. session
  BY <1>1 DEF QueueInv
<1>3. \A q \in Request \ {r} : LockOf(q)' = LockOf(q)
  BY <1>1 DEF LockOf
<1>4. \A q \in Request : Holds(q)' <=> Holds(q)
  BY <1>1 DEF Holds, InRunner
<1>5. ~Holds(r)
  BY <1>1 DEF Holds, InRunner
<1>6. \A q \in Request : ahead'[q] = IF q = r THEN {} ELSE ahead[q] \ {r}
  BY <1>1 DEF Dequeued
<1>7. Woken(r, L) = Heads
  BY DEF Woken, Waiters
<1>8. \A q \in Request :
         fut'[q] = IF q = r THEN "none"
                   ELSE IF L \notin locked /\ q \in Heads THEN "set" ELSE fut[q]
  BY <1>1, <1>7 DEF SetFutures
<1>9. \A q \in Request \ {r} : pc[q] = "waiting" /\ LockOf(q) # L => r \notin ahead[q]
  BY DEF QueueInv, Waiters
<1>10. QueueInv'
  <2>1. \A q \in Request \ {r} : Waiters(LockOf(q))' = Waiters(LockOf(q)) \ {r}
    BY <1>1, <1>3 DEF Waiters
  <2>2. \A q \in Request :
           /\ fut'[q] # "none" <=> pc'[q] = "waiting"
           /\ pc'[q] = "waiting" => session'
    BY <1>1, <1>2, <1>8 DEF QueueInv
  <2>3. \A q \in Request :
           ahead'[q] \subseteq (IF pc'[q] = "waiting" THEN Waiters(LockOf(q))' \ {q} ELSE {})
    <3>1. \A q \in Request \ {r} :
             ahead[q] \subseteq (IF pc[q] = "waiting" THEN Waiters(LockOf(q)) \ {q} ELSE {})
      BY DEF QueueInv
    <3>2. \A q \in Request \ {r} : pc'[q] = pc[q] /\ ahead'[q] = ahead[q] \ {r}
      BY <1>1, <1>6
    <3> QED
      BY <1>6, <2>1, <3>1, <3>2
  <2>4. \A p, q \in Request :
           p # q /\ pc'[p] = "waiting" /\ pc'[q] = "waiting" /\ LockOf(p)' = LockOf(q)'
               => p \in ahead'[q] \/ q \in ahead'[p]
    <3> SUFFICES ASSUME NEW p \in Request, NEW q \in Request, p # q,
                        pc'[p] = "waiting", pc'[q] = "waiting", LockOf(p)' = LockOf(q)'
                 PROVE  p \in ahead'[q] \/ q \in ahead'[p]
      OBVIOUS
    <3>1. p # r /\ q # r /\ pc[p] = "waiting" /\ pc[q] = "waiting" /\ LockOf(p) = LockOf(q)
      BY <1>1, <1>3
    <3>2. p \in ahead[q] \/ q \in ahead[p]
      BY <3>1 DEF QueueInv
    <3> QED
      BY <1>6, <3>1, <3>2
  <2> QED
    BY <2>2, <2>3, <2>4 DEF QueueInv
<1>11. LockExclusion'
  BY <1>3, <1>4, <1>5 DEF LockExclusion
<1>12. LockAccounted'
  BY <1>1, <1>3, <1>4, <1>5 DEF LockAccounted
<1>13. WokenIsHead'
  <2>1. \A q \in Request \ {r} : fut[q] = "set" => pc[q] = "waiting"
    BY DEF QueueInv
  <2> QED
    BY <1>1, <1>3, <1>6, <1>8, <2>1 DEF WokenIsHead
<1>14. NoLostWakeup'
  <2> SUFFICES ASSUME NEW q \in Request,
                      pc'[q] = "waiting", ahead'[q] = {}, LockOf(q)' \notin locked'
               PROVE  fut'[q] \in {"set", "cancelled"}
    BY DEF NoLostWakeup
  <2>1. q # r /\ pc[q] = "waiting" /\ LockOf(q) \notin locked /\ ahead[q] \subseteq {r}
    BY <1>1, <1>3, <1>6
  <2>2. fut[q] \in {"pending", "set", "cancelled"}
    BY <2>1 DEF QueueInv, TypeInv, TypeOK
  <2>3. CASE LockOf(q) = L
    BY <1>8, <2>1, <2>2, <2>3
  <2>4. CASE LockOf(q) # L
    <3>1. ahead[q] = {}
      BY <1>9, <2>1, <2>4
    <3> QED
      BY <1>8, <2>1, <2>4, <3>1 DEF NoLostWakeup
  <2> QED
    BY <2>3, <2>4
<1> QED
  BY <1>10, <1>11, <1>12, <1>13, <1>14

\* Steps of a request keep the lock invariant.
LEMMA LocksStep ==
    ASSUME TypeInv, Locks, TypeInv', NEW r \in Request, Step(r)
    PROVE  Locks'
<1> USE DEF TypeInv, TypeOK, InRunner, Goto, serverVars, lockVars, runVars, diskVars, outVars
<1>1. CASE LocksFromCache(r) \/ LocksMiss(r) \/ LocksBuilt(r)
  BY <1>1, LocksFrame DEF LocksFromCache, LocksMiss, LocksBuilt
<1>2. CASE RejectIntent(r)
  BY <1>2, LocksFrame DEF RejectIntent, Close, LocalsGone
<1>3. CASE RunUnlocked(r)
  <2>1. \A q \in Request : ~Holds(q) /\ ~Holds(q)' /\ pc[q] # "waiting" /\ pc'[q] # "waiting"
    BY <1>3 DEF RunUnlocked, Holds, Locks, QueueInv
  <2>2. UNCHANGED <<locked, ahead, fut>>
    BY <1>3 DEF RunUnlocked
  <2> QED
    BY <2>1, <2>2
    DEF Locks, QueueInv, LockExclusion, LockAccounted, WokenIsHead, NoLostWakeup
<1>4. CASE AcquireFree(r)
  BY <1>4, LocksAcquireFree
<1>5. CASE Enqueue(r)
  BY <1>5, LocksEnqueue
<1>6. CASE Grant(r)
  BY <1>6, LocksGrant
<1>7. CASE WaitTimer(r) \/ CancelWait(r)
  BY <1>7, LocksCancelFuture DEF WaitTimer, CancelWait
<1>8. CASE Unwind(r)
  BY <1>8, LocksUnwind
<1>9. CASE StartFirst(r) \/ StartRetry(r)
  BY <1>9, LocksFrame DEF StartFirst, StartRetry, Spawn
<1>10. CASE SpawnFails(r) \/ PromptRaises(r) \/ CancelStart(r)
  BY <1>10, LocksLeave DEF SpawnFails, PromptRaises, CancelStart, Close, Abort, LocalsGone
<1>11. CASE Flip(r) \/ RunTimer(r) \/ CancelRun(r)
  BY <1>11, LocksFrame DEF Flip, RunTimer, CancelRun
<1>12. CASE Finish(r) \/ RunTimerTooLate(r)
  BY <1>12, LocksLeave DEF Finish, RunTimerTooLate, Close, LocalsGone
<1>13. CASE Reap(r)
  BY <1>13, LocksLeave DEF Reap, Close, Abort, LocalsGone
<1>14. CASE ClaudeOpens(r) \/ ClaudeExits(r)
  BY <1>14, LocksFrame DEF ClaudeOpens, ClaudeExits
<1> QED
  BY <1>1, <1>2, <1>3, <1>4, <1>5, <1>6, <1>7, <1>8, <1>9, <1>10, <1>11, <1>12,
     <1>13, <1>14
  DEF Step

LEMMA LocksNext == LockInv /\ [Next]_vars => LockInv'
<1> SUFFICES ASSUME TypeInv, Locks, [Next]_vars
             PROVE  Locks'
  BY TypeNext DEF LockInv
<1>0. TypeInv'
  BY TypeNext
<1>1. CASE \E r \in Request : Step(r)
  BY <1>0, <1>1, LocksStep
<1>2. CASE Crash
  <2>1. /\ \A q \in Request : pc'[q] \notin InRunner \cup {"waiting"}
        /\ locked' = {}
        /\ ahead' = [q \in Request |-> {}]
        /\ fut' = [q \in Request |-> "none"]
    BY <1>2 DEF Crash, InFlight, InRunner, TypeInv, TypeOK
  <2> QED
    BY <2>1 DEF Locks, QueueInv, LockExclusion, LockAccounted, WokenIsHead,
                NoLostWakeup, Holds
<1>3. CASE \/ \E u \in User : Expire(u)
           \/ \E s \in RegistryState : EditRegistry(s)
           \/ Restart
           \/ UNCHANGED vars
  BY <1>0, <1>3, LocksFrame DEF Expire, EditRegistry, Restart, vars, serverVars, lockVars
<1> QED
  BY <1>1, <1>2, <1>3 DEF Next

LEMMA LockInvariant == Spec => []LockInv
<1>1. Init => LockInv
  BY TypeInit, LocksInit DEF LockInv
<1> QED
  BY <1>1, LocksNext, PTL DEF Spec

\* Two requests never hold the same lock object at once, however waiters are
\* woken, time out or are cancelled and whenever the server is killed.
THEOREM LockIsExclusive == Spec => []LockExclusion
<1>1. LockInv => LockExclusion
  BY DEF LockInv, Locks
<1> QED
  BY <1>1, LockInvariant, PTL

\* The lock is taken exactly while a request is in the runner with it.
THEOREM LockNeverLeaks == Spec => []LockAccounted
<1>1. LockInv => LockAccounted
  BY DEF LockInv, Locks
<1> QED
  BY <1>1, LockInvariant, PTL

\* A waiter that is woken is the first in the queue of a free lock, so that
\* nobody overtakes it and it may set the flag without looking.
THEOREM WokenWaiterIsHead == Spec => []WokenIsHead
<1>1. LockInv => WokenIsHead
  BY DEF LockInv, Locks
<1> QED
  BY <1>1, LockInvariant, PTL

\* While a lock is free and requests wait for it, one of them has been woken
\* or is about to pass the wake-up on.
THEOREM WakeupNeverLost == Spec => []NoLostWakeup
<1>1. LockInv => NoLostWakeup
  BY DEF LockInv, Locks
<1> QED
  BY <1>1, LockInvariant, PTL

-----------------------------------------------------------------------------
(* The `claude` processes.                                                 *)

LEMMA StrayNext == TypeInv /\ NoStrayProcess /\ [Next]_vars => NoStrayProcess'
<1> SUFFICES ASSUME TypeInv, NoStrayProcess, [Next]_vars
             PROVE  NoStrayProcess'
  OBVIOUS
<1> USE DEF TypeInv, TypeOK, NoStrayProcess, LiveProcess, Live, InRunner, Goto,
            serverVars, lockVars, runVars, diskVars, outVars
<1>1. ASSUME NEW r \in Request, Step(r)
      PROVE  NoStrayProcess'
  <2>1. CASE LocksFromCache(r) \/ LocksMiss(r) \/ LocksBuilt(r)
    BY <2>1 DEF LocksFromCache, LocksMiss, LocksBuilt
  <2>2. CASE RejectIntent(r) \/ RunUnlocked(r) \/ AcquireFree(r) \/ Enqueue(r)
    BY <2>2 DEF RejectIntent, RunUnlocked, AcquireFree, Enqueue, Close
  <2>3. CASE Grant(r) \/ WaitTimer(r) \/ CancelWait(r)
    BY <2>3 DEF Grant, WaitTimer, CancelWait
  <2>4. CASE Unwind(r)
    BY <2>4 DEF Unwind, Close, Abort
  <2>5. CASE StartFirst(r) \/ StartRetry(r)
    BY <2>5 DEF StartFirst, StartRetry, Spawn
  <2>6. CASE SpawnFails(r) \/ PromptRaises(r) \/ CancelStart(r)
    BY <2>6 DEF SpawnFails, PromptRaises, CancelStart, Close, Abort
  <2>7. CASE Flip(r) \/ RunTimer(r) \/ CancelRun(r)
    BY <2>7 DEF Flip, RunTimer, CancelRun, Kill
  <2>8. CASE Finish(r) \/ RunTimerTooLate(r)
    BY <2>8 DEF Finish, RunTimerTooLate, Close
  <2>9. CASE Reap(r)
    BY <2>9 DEF Reap, Close, Abort
  <2>10. CASE ClaudeOpens(r) \/ ClaudeExits(r)
    BY <2>10 DEF ClaudeOpens, ClaudeExits
  <2> QED
    BY <1>1, <2>1, <2>2, <2>3, <2>4, <2>5, <2>6, <2>7, <2>8, <2>9, <2>10 DEF Step
<1>2. CASE Crash
  BY <1>2 DEF Crash, InFlight
<1>3. CASE \/ \E u \in User : Expire(u)
           \/ \E s \in RegistryState : EditRegistry(s)
           \/ Restart
           \/ UNCHANGED vars
  BY <1>3 DEF Expire, EditRegistry, Restart, vars
<1> QED
  BY <1>1, <1>2, <1>3 DEF Next

\* A live `claude` process belongs to a request that is running it, unless
\* the server was killed beneath it.
THEOREM ProcessNeverStray == Spec => []NoStrayProcess
<1>1. Init => NoStrayProcess
  BY DEF Init, NoStrayProcess, LiveProcess, Live
<1>2. Spec => []TypeInv
  BY TypeInit, TypeNext, PTL DEF Spec
<1> QED
  BY <1>1, <1>2, StrayNext, PTL DEF Spec

\* Within one UserLocks instance, and but for the orphans of a killed server,
\* a session is never in the hands of two live `claude` processes.
THEOREM SessionNeverResumedTwice == Spec => []ResumeExclusive
<1>1. LockInv /\ NoStrayProcess => ResumeExclusive
  <2> SUFFICES ASSUME LockInv, NoStrayProcess, session,
                      NEW p \in Request, NEW q \in Request,
                      p # q, UserOf[p] = UserOf[q], LiveProcess(p), LiveProcess(q),
                      "lost" \notin {pc[p], pc[q]}
               PROVE  None \notin {table[p], table[q]} /\ table[p] # table[q]
    BY DEF ResumeExclusive
  <2>1. Holds(p) /\ Holds(q)
    BY DEF NoStrayProcess, Holds, InRunner
  <2>2. table[p] \in Request /\ table[q] \in Request
    BY <2>1 DEF LockInv, TypeInv, Wired, Holds
  <2>3. LockOf(p) # LockOf(q)
    BY <2>1 DEF LockInv, Locks, LockExclusion
  <2> QED
    BY <2>2, <2>3, NoneAssumption DEF LockOf
<1> QED
  BY <1>1, LockInvariant, ProcessNeverStray, PTL
-----------------------------------------------------------------------------
(* The audit trail.  An answer is told by its last event because a request *)
(* that is not yet answered has logged no more than its start: an HTTP 500 *)
(* while the prompt is built leaves that event the last.                   *)

StartLogged ==
    \A r \in Request : pc[r] \in {"waiting"} \cup InRunner => event[r] = "agent_invocation_started"

\* What AuditTellsReply asks of one answer.
Tells(e, code) ==
    CASE e = "unsafe_intent_rejected" -> code = "UNSAFE_INTENT"
      [] e = "user_busy"        -> code = "BUSY"
      [] e = "timeout"          -> code = "TIMEOUT"
      [] e \in {"spawn_failed", "non_zero_exit"} -> code = "AGENT_FAILED"
      [] e = "chat_reply"       -> code = "CHAT"
      [] e = "no_sql_block"     -> code = "NO_SQL_PRODUCED"
      [] e = "safety_violation" -> code = "VALIDATION_FAILED"
      [] e = "sql_generated"    -> code \in {"SQL", "HTTP_500"}
      [] OTHER -> /\ e \in {"agent_invocation_started", "agent_invocation_completed"}
                  /\ code = "HTTP_500"

AuditInv == StartLogged /\ \A r \in Request : pc[r] = "done" => Tells(event[r], reply[r])

LEMMA VerdictTells == \A o \in Outputs : Tells(Verdict[o][1], ReplyTo(o))
BY DEF Verdict, Outputs, ReplyTo, Tells

\* An answer that its event tells keeps AuditInv.
LEMMA AuditClose ==
    ASSUME TypeInv, AuditInv, NEW r \in Request, NEW e, NEW code,
           Close(r, e, code), Tells(e, code)
    PROVE  AuditInv'
BY DEF TypeInv, TypeOK, AuditInv, StartLogged, Close, Goto, InRunner

LEMMA AuditStep ==
    ASSUME TypeInv, AuditInv, NEW r \in Request, Step(r)
    PROVE  AuditInv'
<1> USE DEF TypeInv, TypeOK, InRunner
<1>1. CASE LocksFromCache(r) \/ LocksMiss(r) \/ LocksBuilt(r)
  BY <1>1 DEF AuditInv, StartLogged, LocksFromCache, LocksMiss, LocksBuilt, Goto, outVars
<1>2. CASE RejectIntent(r)
  BY <1>2, AuditClose DEF RejectIntent, Tells
<1>3. CASE RunUnlocked(r) \/ AcquireFree(r) \/ Enqueue(r)
  BY <1>3 DEF AuditInv, StartLogged, RunUnlocked, AcquireFree, Enqueue, Started, Goto
<1>4. CASE Grant(r) \/ WaitTimer(r) \/ CancelWait(r)
  BY <1>4 DEF AuditInv, StartLogged, Grant, WaitTimer, CancelWait, Goto, outVars
<1>5. ASSUME Abort(r)
      PROVE  AuditInv'
  BY <1>5 DEF AuditInv, StartLogged, Abort, Goto, outVars
<1>6. CASE Unwind(r)
  BY <1>5, <1>6, AuditClose DEF Unwind, Tells
<1>7. CASE StartFirst(r) \/ StartRetry(r)
  BY <1>7 DEF AuditInv, StartLogged, StartFirst, StartRetry, Spawn, Goto, outVars
<1>8. CASE SpawnFails(r) \/ RunTimerTooLate(r)
  BY <1>8, AuditClose DEF SpawnFails, RunTimerTooLate, Tells
<1>9. CASE PromptRaises(r)
  <2>1. event[r] = "agent_invocation_started"
    BY <1>9 DEF AuditInv, StartLogged, PromptRaises
  <2>2. Tells(event[r], "HTTP_500")
    BY <2>1 DEF Tells
  <2> QED
    BY <1>9, <2>2, AuditClose DEF PromptRaises
<1>10. CASE Flip(r) \/ RunTimer(r) \/ CancelRun(r)
  BY <1>10 DEF AuditInv, StartLogged, Flip, RunTimer, CancelRun, Goto, outVars
<1>11. CASE Finish(r)
  <2>1. Close(r, Verdict[proc[r]][1], ReplyTo(proc[r])) /\ proc[r] \in Outputs
    BY <1>11 DEF Finish
  <2> QED
    BY <2>1, VerdictTells, AuditClose
<1>12. CASE CancelStart(r)
  BY <1>5, <1>12 DEF CancelStart
<1>13. CASE Reap(r)
  BY <1>5, <1>13, AuditClose DEF Reap, Tells
<1>14. CASE ClaudeOpens(r) \/ ClaudeExits(r)
  BY <1>14 DEF AuditInv, StartLogged, ClaudeOpens, ClaudeExits, outVars
<1> QED
  BY <1>1, <1>2, <1>3, <1>4, <1>6, <1>7, <1>8, <1>9, <1>10, <1>11, <1>12, <1>13, <1>14 DEF Step

LEMMA AuditNext == TypeInv /\ AuditInv /\ [Next]_vars => AuditInv'
<1> SUFFICES ASSUME TypeInv, AuditInv, [Next]_vars
             PROVE  AuditInv'
  OBVIOUS
<1>1. CASE \E r \in Request : Step(r)
  BY <1>1, AuditStep
<1>2. CASE Crash
  BY <1>2 DEF Crash, InFlight, InRunner, AuditInv, StartLogged, TypeInv, TypeOK, outVars
<1>3. CASE \/ \E u \in User : Expire(u)
           \/ \E s \in RegistryState : EditRegistry(s)
           \/ Restart
           \/ UNCHANGED vars
  BY <1>3 DEF Expire, EditRegistry, Restart, vars, outVars, AuditInv, StartLogged
<1> QED
  BY <1>1, <1>2, <1>3 DEF Next

\* The last audit event of every answered request tells its answer.  A bare HTTP
\* 500 follows a start (the registry could not be read for the prompt), a
\* completion (validating the SQL raised) or the generated SQL (the registry
\* could not be read again), and nothing else (orchestrator.py:152-359).
THEOREM AuditTrailTellsReply == Spec => []AuditTellsReply
<1>1. Init => AuditInv
  BY DEF Init, AuditInv, StartLogged, InRunner
<1>2. AuditInv => AuditTellsReply
  BY DEF AuditInv, AuditTellsReply, Tells
<1>3. Spec => []TypeInv
  BY TypeInit, TypeNext, PTL DEF Spec
<1> QED
  BY <1>1, <1>2, <1>3, AuditNext, PTL DEF Spec
============================================================================
