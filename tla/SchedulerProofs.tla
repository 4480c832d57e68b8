--------------------------- MODULE SchedulerProofs ---------------------------
(***************************************************************************)
(* The worker and the rows it reads long after they were written:          *)
(* automatic retries stay within their limit, and the janitor fails no     *)
(* task whose call is on; for every number of tasks, attempts, executors,  *)
(* requests and crashes.                                                   *)
(***************************************************************************)
EXTENDS QuietCallProofs

USE TaskStoreAssumption, TelephonyAssumption, ExecutionAssumption, ApiAssumption
USE DEF Executors, Attempts

(* Automatic retries *)

\* A task in hand has left the list: the loop iterates over the rows of one
\* SELECT and never meets a task twice.
OnceInList == worker.pc = "mark" => worker.task \notin worker.list

RetryInv == TInv /\ RetryBound /\ RetryListFresh /\ OnceInList

-----------------------------------------------------------------------------
(* Only mark_task_for_retry counts *)

CountKept == \A t \in Tasks : task'[t].retry_count = task[t].retry_count

LEMMA CallCountKept ==
  ASSUME TInv, NEW t \in Tasks, NEW a \in Calls, CallStep(t, a) \/ CallbackStep(t, a)
  PROVE  CountKept
<1> USE DEF TInv, StoreTypeOK, Row, CountKept
<1>1. CASE FinalizeStore(t, a)
  <2>1. PICK s, err : task' = [task EXCEPT ![t].status = s, ![t].error_reason = err]
    BY <1>1 DEF FinalizeStore
  <2> QED
    BY <2>1
<1>2. CASE CallbackStore(t, a)
  BY <1>2 DEF CallbackStore, SetFailed
<1>3. CASE ~FinalizeStore(t, a) /\ ~CallbackStore(t, a)
  BY <1>3 DEF CallStep, CallbackStep, Answer, StreamRejected, RingOut, BridgeEnds, FinalizeLoad,
     StrayEnds, FinalizeSave, CallbackLoad, EndedCallback, storeVars
<1> QED
  BY <1>1, <1>2, <1>3

LEMMA ExecutorCountKept ==
  ASSUME TInv, NEW e \in Executors, ExecStep(e)
  PROVE  CountKept
<1> USE DEF TInv, StoreTypeOK, Row, CountKept
<1>1. CASE Claim(e)
  BY <1>1 DEF Claim, claim_for_execution
<1>2. CASE Seize(e)
  BY <1>2 DEF Seize, SetStatus
<1>3. CASE DialFails(e)
  BY <1>3 DEF DialFails, SetFailed
<1>4. CASE StoreResult(e)
  <2>1. \/ SetStatus(exec[e].task, "COMPLETED")
        \/ SetFailed(exec[e].task, exec[e].result)
    BY <1>4 DEF StoreResult
  <2>2. CASE SetStatus(exec[e].task, "COMPLETED")
    BY <2>2 DEF SetStatus
  <2>3. ASSUME NEW u, NEW err, SetFailed(u, err)
        PROVE  CountKept
    BY <2>3 DEF SetFailed
  <2> QED
    BY <2>1, <2>2, <2>3
<1>5. CASE Overrule(e)
  BY <1>5 DEF Overrule, SetFailed
<1>6. CASE UNCHANGED task
  BY <1>6
<1> QED
  BY <1>1, <1>2, <1>3, <1>4, <1>5, <1>6
  DEF ExecStep, Acquire, Load, Create, CreateFails, Dial, DialRaises, TalkFails, TalkEnds, storeVars

LEMMA RequestCountKept ==
  ASSUME TInv, \/ UserStep
               \/ \E q \in Requests : RequestStep(q)
  PROVE  CountKept
<1> USE DEF TInv, StoreTypeOK, Row, CountKept
<1>1. CASE UserStep
  BY <1>1 DEF UserStep, LoadForRequest, Execute, storeVars
<1>2. ASSUME NEW q \in Requests, RequestStep(q)
      PROVE  CountKept
  <2>1. CASE Reschedule(q)
    BY <1>2, <2>1 DEF Reschedule
  <2>2. CASE Unschedule(q)
    BY <1>2, <2>2 DEF Unschedule
  <2>3. CASE Cancel(q)
    BY <1>2, <2>3 DEF Cancel, SetFailed
  <2>4. CASE CleanUp(q)
    BY <2>4 DEF CleanUp
  <2>5. CASE Reopen(q)
    BY <1>2, <2>5 DEF Reopen
  <2> QED
    BY <1>2, <2>1, <2>2, <2>3, <2>4, <2>5 DEF RequestStep
<1> QED
  BY <1>1, <1>2

LEMMA ClockCountKept ==
  ASSUME TInv, NEW t \in Tasks, ClockStep(t)
  PROVE  CountKept
  BY DEF TInv, StoreTypeOK, Row, CountKept, ClockStep, ScheduleComesDue, RetryWindowElapses,
     Age, UpdatedAtAges

LEMMA KeptKeeps ==
  ASSUME RetryInv, CountKept, UNCHANGED worker
  PROVE  RetryBound' /\ RetryListFresh' /\ OnceInList'
  BY DEF RetryInv, RetryBound, RetryListFresh, OnceInList, CountKept

-----------------------------------------------------------------------------
LEMMA SchedulerRetryInv ==
  ASSUME RetryInv, SchedulerStep
  PROVE  RetryBound' /\ RetryListFresh' /\ OnceInList'
<1> USE DEF RetryInv, TInv, RetryBound, RetryListFresh, OnceInList
<1>0. task \in [Tasks -> Row] /\ worker.list \in SUBSET Tasks
  BY DEF StoreTypeOK, WorkerOK, SchedTypeOK, WorkerRec
<1>1. CASE GetDueTasks
  BY <1>1 DEF GetDueTasks, Now, storeVars
<1>2. CASE TakeDue
  BY <1>2 DEF TakeDue, Now, storeVars
<1>3. CASE Promote
  BY <1>0, <1>3 DEF Promote, Now, SetStatus, Row
<1>4. CASE ScheduleRetryWindows
  BY <1>0, <1>4 DEF ScheduleRetryWindows, Now, Row
<1>5. CASE GetRetryableFailedTasks
  BY <1>5 DEF GetRetryableFailedTasks, Retryable, Now, storeVars
<1>6. CASE TakeRetryable
  BY <1>6 DEF TakeRetryable, Now, storeVars
<1>7. CASE MarkForRetry
  <2> DEFINE u == worker.task
  <2>1. /\ u \in Tasks /\ u \notin worker.list
        /\ task[u].retry_count < MAX_RETRY_ATTEMPTS
    BY <1>7 DEF MarkForRetry, WorkerOK
  <2>2. \A t \in Tasks : task'[t].retry_count = IF t = u THEN task[t].retry_count + 1
                                                         ELSE task[t].retry_count
    <3>1. task' = [task EXCEPT ![u].status = "PENDING", ![u].retry_count = @ + 1,
                               ![u].next_retry_at = "none"]
      BY <1>7 DEF MarkForRetry
    <3>2. \A t \in Tasks : task[t] \in Row
      BY <1>0
    <3> QED
      BY <1>0, <2>1, <3>1, <3>2 DEF Row
  <2>3. worker'.pc = "retryRun" /\ worker'.list = worker.list
    BY <1>7 DEF MarkForRetry, Now
  <2>4. task[u].retry_count \in Nat
    BY <1>0, <2>1 DEF Row
  <2>5. RetryBound'
    BY <2>1, <2>2, <2>4
  <2>6. RetryListFresh'
    BY <1>7, <2>1, <2>2, <2>3 DEF MarkForRetry
  <2> QED
    BY <2>3, <2>5, <2>6
<1>8. CASE ExecutionReturns
  BY <1>8 DEF ExecutionReturns, Now, storeVars
<1>9. CASE FindStuck
  BY <1>9 DEF FindStuck, NewTick, Now, storeVars
<1>10. CASE FailStuck
  BY <1>0, <1>10 DEF FailStuck, NewTick, Row
<1> QED
  BY <1>1, <1>2, <1>3, <1>4, <1>5, <1>6, <1>7, <1>8, <1>9, <1>10 DEF SchedulerStep

LEMMA NextRetryInv == RetryInv /\ [Next]_vars => RetryInv'
<1> SUFFICES ASSUME RetryInv, [Next]_vars
             PROVE  RetryBound' /\ RetryListFresh' /\ OnceInList'
  BY NextTInv DEF RetryInv
<1> USE DEF RetryInv
<1>1. ASSUME NEW t \in Tasks, ClockStep(t)
      PROVE  RetryBound' /\ RetryListFresh' /\ OnceInList'
  BY <1>1, ClockCountKept, KeptKeeps DEF ClockStep
<1>2. ASSUME NEW t \in Tasks, NEW a \in Calls, Telephone(t, a) \/ Callback(t, a)
      PROVE  RetryBound' /\ RetryListFresh' /\ OnceInList'
  BY <1>2, CallCountKept, KeptKeeps DEF Telephone, Callback
<1>3. ASSUME NEW e \in Executors, Executor(e)
      PROVE  RetryBound' /\ RetryListFresh' /\ OnceInList'
  BY <1>3, ExecutorCountKept, KeptKeeps DEF Executor
<1>4. CASE User \/ \E q \in Requests : Request(q)
  BY <1>4, RequestCountKept, KeptKeeps DEF User, Request
<1>5. CASE Poll
  BY <1>5, SchedulerRetryInv DEF Poll
<1>6. CASE ApiCrash
  BY <1>6, KeptKeeps DEF ApiCrash, CountKept, storeVars
<1>7. CASE WorkerCrash
  BY <1>7 DEF WorkerCrash, NewTick, storeVars, RetryBound, RetryListFresh, OnceInList
<1>8. CASE UNCHANGED vars
  BY <1>8, KeptKeeps DEF vars, schedVars, CountKept, storeVars
<1> QED
  BY <1>1, <1>2, <1>3, <1>4, <1>5, <1>6, <1>7, <1>8 DEF Next

LEMMA InitRetryInv == Init => RetryInv
<1> SUFFICES ASSUME Init
             PROVE  RetryBound /\ RetryListFresh /\ OnceInList
  BY InitTInv DEF RetryInv
<1>1. ASSUME NEW t \in Tasks
      PROVE  task[t].retry_count = 0
  <2>1. PICK when \in CreatedWith : task[t] = NewRow(when)
    BY DEF Init, StoreInit
  <2> QED
    BY <2>1 DEF NewRow
<1>2. worker.pc = "due"
  BY DEF Init, SchedInit, NewTick
<1> QED
  BY <1>1, <1>2 DEF RetryBound, RetryListFresh, OnceInList

\* However the worker's tick, the users' retries, the finalizers' and janitor's
\* failures and both processes' restarts interleave, retry_count never passes
\* MAX_RETRY_ATTEMPTS, although mark_task_for_retry raises it without a test.
THEOREM RetriesAreBounded == Spec => []RetryBound
<1>1. RetryInv => RetryBound
  BY DEF RetryInv
<1> QED
  BY <1>1, InitRetryInv, NextRetryInv, PTL DEF Spec

\* Whoever is in the list that the worker works off, or is about to be marked,
\* has a retry left, although the list may be old (scheduler/service.py:66-76).
THEOREM ListedTasksHaveRetries == Spec => []RetryListFresh
<1>1. RetryInv => RetryListFresh
  BY DEF RetryInv
<1> QED
  BY <1>1, InitRetryInv, NextRetryInv, PTL DEF Spec

-----------------------------------------------------------------------------
(* The realtime path on its own *)

\* The configuration the next theorems are about: every execution is realtime,
\* because the realtime path is configured and no task is ever marked as one
\* whose OpenAI session failed to initialise.
RealtimeScope == USE_REALTIME_API /\ ~InitMayFail

\* Nobody is on the legacy path, and the worker's executor is at work only
\* while the worker waits for it.
RealtimeOnly ==
  /\ \A t \in Tasks : task[t].error_reason # "init"
  /\ \A e \in Executors :
       /\ exec[e].pc \notin {"seize", "talk", "store"}
       /\ exec[e].pc \in {"claim", "create", "dial"} => exec[e].realtime
       /\ exec[e].pc = "overrule" => e = Worker
  /\ exec[Worker].pc # "idle" => worker.pc \in {"dueRun", "retryRun"}

\* A new execution waits for the semaphore, or begins at its first SELECT.
LEMMA Begins ==
  ASSUME TInv, NEW t
  PROVE  /\ Spawn(t) =>
              \A e \in Executors :
                 \/ exec'[e] = exec[e]
                 \/ e # Worker /\ exec'[e].pc = "queued" /\ exec'[e].task = t
         /\ StartWorker(t) =>
              /\ exec'[Worker].pc = "load" /\ exec'[Worker].task = t
              /\ \A e \in Executors \ {Worker} : exec'[e] = exec[e]
<1> USE DEF TInv, ExecOK, ExecTypeOK
<1> DEFINE i(pc) == [Idle EXCEPT !.pc = pc, !.task = t]
<1>1. \A pc : i(pc).pc = pc /\ i(pc).task = t
  BY DEF Idle
<1> HIDE DEF i
<1>2. Spawn(t) => \E r \in Runs : exec' = [exec EXCEPT ![r] = i("queued")]
  BY DEF Spawn, i
<1>3. StartWorker(t) => exec' = [exec EXCEPT ![Worker] = i("load")]
  BY DEF StartWorker, i
<1> QED
  BY <1>1, <1>2, <1>3

LEMMA ExecutorRealtimeOnly ==
  ASSUME RealtimeScope, TInv, RealtimeOnly, NEW e \in Executors, Executor(e)
  PROVE  RealtimeOnly'
<1> USE DEF RealtimeScope, TInv, StoreTypeOK, Row, ExecOK, ExecTypeOK, ExecRec, RealtimeOnly
<1>0. ExecStep(e) /\ worker' = worker
  BY DEF Executor
<1>1. CASE Acquire(e)
  BY <1>0, <1>1 DEF Acquire, Advance, storeVars
<1>2. CASE Load(e)
  BY <1>0, <1>2 DEF Load, Realtime, Refused, Advance, Finish, Idle, storeVars
<1>3. CASE Claim(e)
  <2>1. \A t \in Tasks : task'[t].error_reason = task[t].error_reason
    BY <1>3 DEF Claim, claim_for_execution
  <2>2. \/ Advance(e, "create") /\ exec[e].pc = "claim"
        \/ Advance(e, "overrule") /\ e = Worker /\ exec[e].pc = "claim"
        \/ Finish(e)
    BY <1>3 DEF Claim, Refused
  <2> QED
    BY <1>0, <2>1, <2>2 DEF Advance, Finish, Idle
<1>4. CASE Create(e)
  BY <1>0, <1>4 DEF Create
<1>5. CASE CreateFails(e) \/ Dial(e)
  <2>1. Finish(e) /\ task' = task
    BY <1>5 DEF CreateFails, Dial, storeVars
  <2> QED
    BY <1>0, <2>1 DEF Finish, Idle
<1>5a. CASE DialRaises(e)
  BY <1>0, <1>5a DEF DialRaises, storeVars
<1>6. CASE DialFails(e)
  <2>1. PICK reason \in {"plain", "network"} : SetFailed(exec[e].task, reason) /\ Finish(e)
    BY <1>6 DEF DialFails
  <2>2. \A t \in Tasks : task'[t].error_reason # "init"
    BY <2>1 DEF SetFailed
  <2> QED
    BY <1>0, <2>1, <2>2 DEF Finish, Idle
<1>7. CASE Overrule(e)
  BY <1>0, <1>7 DEF Overrule, SetFailed, Finish, Idle
<1> QED
  BY <1>0, <1>1, <1>2, <1>3, <1>4, <1>5, <1>5a, <1>6, <1>7
  DEF ExecStep, Seize, TalkFails, TalkEnds, StoreResult

LEMMA CallRealtimeOnly ==
  ASSUME RealtimeScope, TInv, RealtimeOnly, NEW t \in Tasks, NEW a \in Calls,
         Telephone(t, a) \/ Callback(t, a)
  PROVE  RealtimeOnly'
<1> USE DEF RealtimeScope, TInv, StoreTypeOK, Row, RealtimeOnly
<1>0. exec' = exec /\ worker' = worker /\ (CallStep(t, a) \/ CallbackStep(t, a))
  BY DEF Telephone, Callback
<1>1. CASE FinalizeStore(t, a)
  <2>1. PICK o \in Outcomes : \E s : \E err \in ErrorsOf(o, call[t][a].err, task[t].error_reason) :
          task' = [task EXCEPT ![t].status = s, ![t].error_reason = err]
    BY <1>1 DEF FinalizeStore
  <2>2. o # "init"
    BY DEF Outcomes
  <2>3. PICK s : \E err \in ErrorsOf(o, call[t][a].err, task[t].error_reason) :
          task' = [task EXCEPT ![t].status = s, ![t].error_reason = err]
    BY <2>1
  <2>4. PICK err \in ErrorsOf(o, call[t][a].err, task[t].error_reason) :
          task' = [task EXCEPT ![t].status = s, ![t].error_reason = err]
    BY <2>3
  <2>5. err # "init"
    BY <2>2 DEF ErrorsOf, Outcomes
  <2> QED
    BY <1>0, <2>4, <2>5
<1>2. CASE CallbackStore(t, a)
  BY <1>0, <1>2 DEF CallbackStore, SetFailed
<1>3. CASE UNCHANGED task
  BY <1>0, <1>3
<1> QED
  BY <1>0, <1>1, <1>2, <1>3 DEF CallStep, CallbackStep, Answer, StreamRejected, RingOut,
     BridgeEnds, StrayEnds, FinalizeLoad, FinalizeSave, CallbackLoad, EndedCallback, storeVars

LEMMA ApiRealtimeOnly ==
  ASSUME TInv, RealtimeOnly, User \/ \E q \in Requests : Request(q)
  PROVE  RealtimeOnly'
<1> USE DEF TInv, StoreTypeOK, Row, ExecOK, ExecTypeOK, ExecRec, RealtimeOnly
<1>1. CASE User
  <2>1. task' = task /\ worker' = worker /\ (exec' = exec \/ \E t \in Tasks : Spawn(t))
    BY <1>1 DEF User, UserStep, LoadForRequest, Execute, storeVars
  <2> QED
    BY <2>1, Begins
<1>2. ASSUME NEW q \in Requests, Request(q)
      PROVE  RealtimeOnly'
  <2>0. worker' = worker /\ RequestStep(q)
    BY <1>2 DEF Request
  <2>1. CASE Reschedule(q) \/ Unschedule(q)
    <3>1. PICK when, s : task' = [task EXCEPT ![req[q].task].scheduled_time = when,
                                              ![req[q].task].status = s]
      BY <2>1 DEF Reschedule, Unschedule
    <3>2. \A t \in Tasks : task'[t].error_reason = task[t].error_reason
      BY <3>1
    <3> QED
      BY <2>0, <2>1, <3>2 DEF Reschedule, Unschedule
  <2>2. CASE CleanUp(q)
    BY <2>0, <2>2 DEF CleanUp
  <2>4. CASE Cancel(q)
    <3>1. \A t \in Tasks : task'[t].error_reason # "init"
      BY <2>4 DEF Cancel, SetFailed
    <3> QED
      BY <2>0, <2>4, <3>1 DEF Cancel
  <2>3. CASE Reopen(q)
    BY <2>0, <2>3 DEF Reopen, Spawn, Idle
  <2> QED
    BY <2>0, <2>1, <2>2, <2>3, <2>4 DEF RequestStep
<1> QED
  BY <1>1, <1>2

LEMMA PollRealtimeOnly ==
  ASSUME TInv, RealtimeOnly, Poll
  PROVE  RealtimeOnly'
<1> USE DEF TInv, StoreTypeOK, Row, ExecOK, ExecTypeOK, ExecRec, RealtimeOnly
<1>0. SchedulerStep
  BY DEF Poll
<1>1. CASE GetDueTasks \/ GetRetryableFailedTasks
  BY <1>1 DEF GetDueTasks, GetRetryableFailedTasks, Now, storeVars
<1>2. CASE TakeDue \/ TakeRetryable
  <2>1. /\ task' = task
        /\ worker.pc \in {"dueList", "retryList"}
        /\ \/ exec' = exec
           \/ \E t : StartWorker(t) /\ worker'.pc \in {"dueRun", "retryRun"}
    BY <1>2 DEF TakeDue, TakeRetryable, Now, storeVars
  <2>2. exec[Worker].pc = "idle"
    BY <2>1
  <2> QED
    BY <2>1, <2>2, Begins
<1>4. CASE Promote
  BY <1>4 DEF Promote, SetStatus, Now, StartWorker, Idle
<1>5. CASE MarkForRetry
  BY <1>5 DEF MarkForRetry, Now, StartWorker, Idle
<1>6. CASE ScheduleRetryWindows
  BY <1>6 DEF ScheduleRetryWindows, Now
<1>7. CASE ExecutionReturns
  BY <1>7 DEF ExecutionReturns, Now, storeVars
<1>8. CASE FindStuck
  BY <1>8 DEF FindStuck, NewTick, storeVars
<1>9. CASE FailStuck
  <2>1. \A t \in Tasks : task'[t].error_reason # "init"
    <3>1. ASSUME NEW t \in Tasks
          PROVE  task'[t].error_reason \in {"network", task[t].error_reason}
      <4>1. CASE t \in worker.list
        <5>1. task'[t] = [task[t] EXCEPT !.status = "FAILED",
                !.error_reason = IF t \in worker.blank THEN "network" ELSE @]
          BY <1>9, <4>1 DEF FailStuck
        <5> QED
          BY <5>1
      <4>2. CASE t \notin worker.list
        BY <1>9, <4>2 DEF FailStuck
      <4> QED
        BY <4>1, <4>2
    <3> QED
      BY <3>1
  <2> QED
    BY <1>9, <2>1 DEF FailStuck, NewTick
<1> QED
  BY <1>0, <1>1, <1>2, <1>4, <1>5, <1>6, <1>7, <1>8, <1>9 DEF SchedulerStep

LEMMA NextRealtimeOnly ==
  ASSUME RealtimeScope, TInv, RealtimeOnly, [Next]_vars
  PROVE  RealtimeOnly'
<1>1. ASSUME NEW t \in Tasks, ClockStep(t)
      PROVE  RealtimeOnly'
  BY <1>1 DEF ClockStep, ScheduleComesDue, RetryWindowElapses, Age, UpdatedAtAges, RealtimeOnly,
     TInv, StoreTypeOK, Row
<1>2. CASE ApiCrash \/ WorkerCrash
  BY <1>2 DEF ApiCrash, WorkerCrash, RealtimeOnly, Idle, NewTick, storeVars, TInv, ExecOK,
     ExecTypeOK
<1>3. CASE UNCHANGED vars
  BY <1>3 DEF vars, storeVars, schedVars, RealtimeOnly
<1> QED
  BY <1>1, <1>2, <1>3, ExecutorRealtimeOnly, CallRealtimeOnly, ApiRealtimeOnly, PollRealtimeOnly
  DEF Next

LEMMA InitRealtimeOnly == Init => RealtimeOnly
<1> SUFFICES ASSUME Init
             PROVE  RealtimeOnly
  OBVIOUS
<1>1. ASSUME NEW t \in Tasks
      PROVE  task[t].error_reason = "none"
  <2>1. PICK when \in CreatedWith : task[t] = NewRow(when)
    BY DEF Init, StoreInit
  <2> QED
    BY <2>1 DEF NewRow
<1> QED
  BY <1>1 DEF Init, ExecInit, Idle, RealtimeOnly

-----------------------------------------------------------------------------
(* The janitor *)

\* What the janitor must not interrupt, and besides it all that could still
\* engage the task: an execution past its first test, a request, a call.
Engaged(t) ==
  \/ \E e \in Executors : exec[e].task = t /\ exec[e].pc \in {"claim", "create", "dial"}
  \/ \E q \in Requests : req[q].task = t
  \/ \E a \in Calls : RealtimeInFlight(t, a)

\* A late adverse callback can fail a task under the janitor's eyes, and a user
\* could retry it before the sweep commits.  The theorem excludes one of both.
JanitorScope == RealtimeScope /\ (CallbackKinds = {} \/ "retry" \notin Kinds)

AdverseIsSent ==
  CallbackKinds = {} => \A t \in Tasks, a \in Calls : call[t][a].cb \in {"none", "over"}

StuckIsIdle == \A t \in Tasks : Stuck(t) => ~Engaged(t)

SweptIsIdle ==
  \A t \in Tasks :
    worker.pc = "sweep" /\ t \in worker.list =>
      /\ ~Engaged(t)
      /\ \/ task[t].status = "IN_PROGRESS"
         \/ task[t].status = "FAILED" /\ "retry" \notin Kinds

JanitorInv == TInv /\ RealtimeOnly /\ AdverseIsSent /\ StuckIsIdle /\ SweptIsIdle

\* What a step of anyone but the worker's loop may do to a task.
Same(t) == task'[t].status = task[t].status /\ task'[t].updated_at = task[t].updated_at

Admitted(t) ==
  \/ Claimable(t)
  \/ "retry" \in Kinds /\ task[t].status \in {"FAILED", "DEFERRED"}

Effect(t) ==
  \/ Same(t) /\ (Engaged(t)' => Engaged(t) \/ Admitted(t))
  \/ Claimable(t) /\ task'[t].updated_at = "fresh"
  \/ Engaged(t) /\ (task'[t].status = "IN_PROGRESS" => Same(t))
  \/ /\ exec[Worker].pc # "idle" \/ CallbackKinds # {}
     /\ task'[t].status = "FAILED"
     /\ Engaged(t)' => Engaged(t)

LEMMA EffectsKeep ==
  ASSUME JanitorScope, JanitorInv, UNCHANGED worker, \A t \in Tasks : Effect(t)
  PROVE  StuckIsIdle' /\ SweptIsIdle'
<1>1. ASSUME NEW t \in Tasks, Stuck(t)'
      PROVE  ~Engaged(t)'
  <2>1. Effect(t) /\ (Stuck(t) => ~Engaged(t))
    BY DEF JanitorInv, StuckIsIdle
  <2> QED
    BY <1>1, <2>1 DEF Effect, Same, Admitted, Stuck, Claimable, OpenStatus
<1>2. ASSUME NEW t \in Tasks, worker'.pc = "sweep", t \in worker'.list
      PROVE  /\ ~Engaged(t)'
             /\ \/ task'[t].status = "IN_PROGRESS"
                \/ task'[t].status = "FAILED" /\ "retry" \notin Kinds
  <2>1. /\ ~Engaged(t)
        /\ \/ task[t].status = "IN_PROGRESS"
           \/ task[t].status = "FAILED" /\ "retry" \notin Kinds
    BY <1>2 DEF JanitorInv, SweptIsIdle
  <2>2. exec[Worker].pc = "idle"
    BY <1>2 DEF JanitorInv, RealtimeOnly
  <2>3. ~Claimable(t) /\ ~Admitted(t)
    BY <2>1 DEF Claimable, Admitted, OpenStatus
  <2>4. Effect(t)
    OBVIOUS
  <2>5. CASE Same(t) /\ (Engaged(t)' => Engaged(t) \/ Admitted(t))
    BY <2>1, <2>3, <2>5 DEF Same
  <2>6. CASE CallbackKinds # {} /\ task'[t].status = "FAILED" /\ (Engaged(t)' => Engaged(t))
    BY <2>1, <2>6 DEF JanitorScope
  <2> QED
    BY <2>1, <2>2, <2>3, <2>4, <2>5, <2>6 DEF Effect
<1> QED
  BY <1>1, <1>2 DEF StuckIsIdle, SweptIsIdle

\* Who engages a task afterwards did so before.
LEMMA EngagedKept ==
  ASSUME NEW t \in Tasks,
         \A e \in Executors :
            exec'[e].task = t /\ exec'[e].pc \in {"claim", "create", "dial"}
            => exec[e].task = t /\ exec[e].pc \in {"claim", "create", "dial"},
         \A q \in Requests : req'[q].task = t => req[q].task = t,
         \A a \in Calls : RealtimeInFlight(t, a)' => RealtimeInFlight(t, a)
  PROVE  Engaged(t)' => Engaged(t)
  BY DEF Engaged

\* An executor moves alone, and keeps its task until it is idle again.
LEMMA Moves ==
  ASSUME TInv, RealtimeOnly, NEW e \in Executors, ExecStep(e)
  PROVE  /\ \A f \in Executors \ {e} : exec'[f] = exec[f]
         /\ exec'[e].pc = "idle" \/ exec'[e].task = exec[e].task
<1> USE DEF TInv, ExecOK, ExecTypeOK, ExecRec
<1>1. CASE Finish(e)
  BY <1>1 DEF Finish, Idle
<1>2. ASSUME NEW pc, Advance(e, pc)
      PROVE  /\ \A f \in Executors \ {e} : exec'[f] = exec[f]
             /\ exec'[e].task = exec[e].task
  BY <1>2 DEF Advance
<1>3. CASE Load(e)
  BY <1>1, <1>2, <1>3 DEF Load, Refused
<1>4. CASE Create(e)
  BY <1>4 DEF Create
<1>5. CASE Acquire(e) \/ Claim(e) \/ CreateFails(e) \/ Overrule(e)
  BY <1>1, <1>2, <1>5 DEF Acquire, Claim, Refused, CreateFails, Overrule
<1>6. CASE Dial(e) \/ DialFails(e)
  BY <1>1, <1>6 DEF Dial, DialFails, RealtimeOnly
<1>7. CASE DialRaises(e)
  BY <1>7 DEF DialRaises
<1> QED
  BY <1>3, <1>4, <1>5, <1>6, <1>7 DEF ExecStep, Seize, TalkFails, TalkEnds, StoreResult, RealtimeOnly

\* A call that somebody will still finish was placed by an executor: what
\* Twilio, the bridge and the callbacks do only brings it nearer to its end.
LEMMA CallsEnd ==
  ASSUME TInv, NEW u \in Tasks, NEW a \in Calls, CallStep(u, a) \/ CallbackStep(u, a),
         NEW t \in Tasks, NEW b \in Calls, RealtimeInFlight(t, b)'
  PROVE  RealtimeInFlight(t, b)
<1> USE DEF TInv, TeleTypeOK
<1>1. CASE t = u /\ b = a
  <2>1. CASE EndedCallback(u, a)
    BY <2>1 DEF EndedCallback, RealtimeInFlight
  <2>2. CASE CallbackLoad(u, a)
    <3>1. call'[u][a].st = IF call[u][a].st = "live" THEN "closing" ELSE call[u][a].st
      BY <2>2, CallType DEF CallbackLoad, CallRec
    <3> QED
      BY <1>1, <3>1 DEF RealtimeInFlight
  <2>3. CASE CallbackStore(u, a)
    BY <1>1, <2>3, CallType DEF CallbackStore, RealtimeInFlight, CallRec
  <2>4. CASE StrayEnds(u, a)
    BY <1>1, <2>4 DEF StrayEnds, Goto, RealtimeInFlight
  <2>5. CASE CallStep(u, a) /\ ~StrayEnds(u, a)
    BY <1>1, <2>5 DEF CallStep, Answer, StreamRejected, RingOut, BridgeEnds, FinalizeLoad,
       FinalizeSave, FinalizeStore, Goto, RealtimeInFlight
  <2> QED
    BY <2>1, <2>2, <2>3, <2>4, <2>5 DEF CallbackStep
<1>2. CASE ~(t = u /\ b = a)
  <2>1. CASE CallbackStep(u, a)
    BY <1>2, <2>1
    DEF CallbackStep, CallbackLoad, CallbackStore, EndedCallback, RealtimeInFlight
  <2>2. CASE FinalizeLoad(u, a) \/ FinalizeSave(u, a) \/ FinalizeStore(u, a)
    BY <1>2, <2>2 DEF FinalizeLoad, FinalizeSave, FinalizeStore, Goto, RealtimeInFlight
  <2>3. CASE \/ Answer(u, a) \/ StreamRejected(u, a) \/ RingOut(u, a)
             \/ BridgeEnds(u, a) \/ StrayEnds(u, a)
    BY <1>2, <2>3
    DEF Answer, StreamRejected, RingOut, BridgeEnds, StrayEnds, Goto, RealtimeInFlight
  <2> QED
    BY <2>1, <2>2, <2>3 DEF CallStep
<1> QED
  BY <1>1, <1>2

LEMMA ExecutorEffect ==
  ASSUME JanitorScope, JanitorInv, NEW e \in Executors, Executor(e), NEW t \in Tasks
  PROVE  Effect(t)
<1> USE DEF JanitorInv, TInv, ExecOK, ExecTypeOK, StoreTypeOK, TeleTypeOK, RealtimeOnly
<1>0. ExecStep(e) /\ req' = req
  BY DEF Executor, apiVars
<1>a. /\ \A f \in Executors \ {e} : exec'[f] = exec[f]
      /\ exec'[e].pc = "idle" \/ exec'[e].task = exec[e].task
  BY <1>0, Moves
<1>b. ASSUME UNCHANGED call,
             \/ t # exec[e].task
             \/ exec'[e].pc \in {"claim", "create", "dial"}
                => exec[e].pc \in {"claim", "create", "dial"}
      PROVE  Engaged(t)' => Engaged(t)
  BY <1>0, <1>a, <1>b, EngagedKept DEF RealtimeInFlight
<1>1. CASE Acquire(e)
  <2>1. Engaged(t)' => Engaged(t)
    BY <1>1, <1>b DEF Acquire, Advance
  <2> QED
    BY <1>1, <2>1 DEF Acquire, storeVars, Effect, Same
<1>2. CASE Load(e)
  <2>1. CASE Claimable(exec[e].task) /\ t = exec[e].task
    BY <1>2, <2>1 DEF Load, storeVars, Effect, Same, Admitted
  <2>2. CASE ~(Claimable(exec[e].task) /\ t = exec[e].task)
    <3>1. Engaged(t)' => Engaged(t)
      <4>1. CASE t # exec[e].task
        BY <1>2, <1>b, <4>1 DEF Load
      <4>2. CASE ~Claimable(exec[e].task)
        <5>a. Refused(e, task[exec[e].task].status)
          BY <1>2, <4>2 DEF Load
        <5>b. Finish(e) \/ Advance(e, "overrule")
          BY <5>a DEF Refused
        <5>1. exec'[e].pc \in {"idle", "overrule"}
          BY <5>b DEF Advance, Finish, Idle, ExecRec
        <5> QED
          BY <1>2, <1>b, <5>1 DEF Load
      <4> QED
        BY <2>2, <4>1, <4>2
    <3> QED
      BY <1>2, <3>1 DEF Load, storeVars, Effect, Same
  <2> QED
    BY <2>1, <2>2
<1>3. CASE Claim(e)
  <2>1. CASE Claimable(exec[e].task) /\ t = exec[e].task
    BY <1>3, <2>1 DEF Claim, claim_for_execution, Effect
  <2>2. CASE ~(Claimable(exec[e].task) /\ t = exec[e].task)
    <3>1. Engaged(t)' => Engaged(t)
      BY <1>3, <1>b DEF Claim
    <3> QED
      BY <1>3, <2>2, <3>1 DEF Claim, claim_for_execution, Effect, Same
  <2> QED
    BY <2>1, <2>2
<1>4. CASE Create(e)
  <2>1. Engaged(t)' => Engaged(t)
    BY <1>4, <1>b DEF Create
  <2> QED
    BY <1>4, <2>1 DEF Create, Effect, Same
<1>5. CASE CreateFails(e)
  <2>1. Engaged(t)' => Engaged(t)
    BY <1>5, <1>b DEF CreateFails
  <2> QED
    BY <1>5, <2>1 DEF CreateFails, storeVars, Effect, Same
<1>6. CASE Dial(e)
  <2>1. CASE t = exec[e].task
    BY <1>6, <2>1 DEF Dial, storeVars, Effect, Same, Engaged
  <2>2. CASE t # exec[e].task
    <3>1. Engaged(t)' => Engaged(t)
      <4>1. \A b \in Calls : RealtimeInFlight(t, b)' => RealtimeInFlight(t, b)
        BY <1>6, <2>2 DEF Dial, Place, RealtimeInFlight
      <4> QED
        BY <1>0, <1>6, <1>a, <2>2, <4>1, EngagedKept DEF Dial
    <3> QED
      BY <1>6, <3>1 DEF Dial, storeVars, Effect, Same
  <2> QED
    BY <2>1, <2>2
<1>c. ASSUME TryRaises(e), t # exec[e].task
      PROVE  \A b \in Calls : RealtimeInFlight(t, b)' => RealtimeInFlight(t, b)
  BY <1>c DEF TryRaises, Place, RealtimeInFlight
<1>6a. CASE DialRaises(e)
  <2>1. CASE t = exec[e].task
    BY <1>6a, <2>1 DEF DialRaises, storeVars, Effect, Same, Engaged
  <2>2. CASE t # exec[e].task
    <3>1. Engaged(t)' => Engaged(t)
      BY <1>0, <1>6a, <1>a, <1>c, <2>2, EngagedKept DEF DialRaises
    <3> QED
      BY <1>6a, <3>1 DEF DialRaises, storeVars, Effect, Same
  <2> QED
    BY <2>1, <2>2
<1>7. CASE DialFails(e)
  <2>1. PICK reason : SetFailed(exec[e].task, reason) /\ Finish(e)
    BY <1>7 DEF DialFails
  <2>2. CASE t = exec[e].task
    <3>1. Engaged(t)
      BY <1>7, <2>2 DEF DialFails, Engaged
    <3>2. task'[t].status = "FAILED"
      BY <2>1, <2>2 DEF SetFailed
    <3> QED
      BY <3>1, <3>2 DEF Effect
  <2>3. CASE t # exec[e].task
    <3>1. Engaged(t)' => Engaged(t)
      BY <1>0, <1>7, <1>a, <1>c, <2>3, EngagedKept DEF DialFails
    <3> QED
      BY <2>1, <2>3, <3>1 DEF SetFailed, Effect, Same
  <2> QED
    BY <2>2, <2>3
<1>8. CASE Overrule(e)
  <2>1. Engaged(t)' => Engaged(t)
    BY <1>8, <1>b DEF Overrule, Finish, Idle
  <2>2. CASE t = exec[e].task
    <3>1. exec[Worker].pc # "idle" /\ task'[t].status = "FAILED"
      BY <1>8, <2>2 DEF Overrule, SetFailed
    <3> QED
      BY <2>1, <3>1 DEF Effect
  <2>3. CASE t # exec[e].task
    BY <1>8, <2>1, <2>3 DEF Overrule, SetFailed, Effect, Same
  <2> QED
    BY <2>2, <2>3
<1> QED
  BY <1>0, <1>1, <1>2, <1>3, <1>4, <1>5, <1>6, <1>6a, <1>7, <1>8
  DEF ExecStep, Seize, TalkFails, TalkEnds, StoreResult

LEMMA CallEffect ==
  ASSUME JanitorScope, JanitorInv, NEW u \in Tasks, NEW a \in Calls,
         Telephone(u, a) \/ Callback(u, a), NEW t \in Tasks
  PROVE  Effect(t)
<1> USE DEF JanitorInv, TInv, StoreTypeOK, TeleTypeOK
<1>0. exec' = exec /\ req' = req /\ (CallStep(u, a) \/ CallbackStep(u, a))
  BY DEF Telephone, Callback, apiVars
<1>1. Engaged(t)' => Engaged(t)
  <2>1. \A b \in Calls : RealtimeInFlight(t, b)' => RealtimeInFlight(t, b)
    BY <1>0, CallsEnd
  <2> QED
    BY <1>0, <2>1, EngagedKept
<1>2. CASE FinalizeStore(u, a)
  <2>1. PICK o, err : task' = [task EXCEPT
          ![u].status = Dirty(StatusOf(o), call[u][a].status, @), ![u].error_reason = err]
    BY <1>2 DEF FinalizeStore
  <2>2. CASE t = u
    <3>1. Engaged(t)
      BY <1>2, <2>2 DEF FinalizeStore, Engaged, RealtimeInFlight
    <3>2. task'[t].status = "IN_PROGRESS" => Same(t)
      BY <2>1, <2>2 DEF Dirty, StatusOf, Same
    <3> QED
      BY <3>1, <3>2 DEF Effect
  <2>3. CASE t # u
    BY <1>1, <2>1, <2>3 DEF Effect, Same
  <2> QED
    BY <2>2, <2>3
<1>3. CASE CallbackStore(u, a)
  <2>1. CASE t = u
    <3>1. CallbackKinds # {}
      BY <1>3 DEF CallbackStore, AdverseIsSent
    <3>2. task'[t].status = "FAILED"
      BY <1>3, <2>1 DEF CallbackStore, SetFailed
    <3> QED
      BY <1>1, <3>1, <3>2 DEF Effect
  <2>2. CASE t # u
    BY <1>1, <1>3, <2>2 DEF CallbackStore, SetFailed, Effect, Same
  <2> QED
    BY <2>1, <2>2
<1>4. CASE UNCHANGED task
  BY <1>1, <1>4 DEF Effect, Same
<1> QED
  BY <1>0, <1>2, <1>3, <1>4 DEF CallStep, CallbackStep, Answer, StreamRejected, RingOut,
     BridgeEnds, StrayEnds, FinalizeLoad, FinalizeSave, CallbackLoad, EndedCallback, storeVars

LEMMA ApiEffect ==
  ASSUME JanitorScope, JanitorInv, User \/ \E q \in Requests : Request(q), NEW t \in Tasks
  PROVE  Effect(t)
<1> USE DEF JanitorInv, TInv, StoreTypeOK, ReqOK, ApiTypeOK, ReqRec
<1>a. None \notin Tasks
  OBVIOUS
<1>1. ASSUME NEW u \in Tasks, Execute(u)
      PROVE  Effect(t)
  <2>1. \A e \in Executors : exec'[e] = exec[e] \/ exec'[e].pc = "queued"
    BY <1>1, Begins DEF Execute
  <2>2. Engaged(t)' => Engaged(t)
    BY <1>1, <2>1, EngagedKept DEF Execute, RealtimeInFlight
  <2> QED
    BY <1>1, <2>2 DEF Execute, storeVars, Effect, Same
<1>2. ASSUME NEW q \in Requests, NEW kind \in RequestKinds, NEW u \in Tasks,
             LoadForRequest(q, kind, u)
      PROVE  Effect(t)
  <2>1. CASE t = u
    <3>1. Admitted(t)
      BY <1>2, <2>1 DEF LoadForRequest, Admits, Admitted, Claimable
    <3> QED
      BY <1>2, <3>1 DEF LoadForRequest, storeVars, Effect, Same
  <2>2. CASE t # u
    <3>1. Engaged(t)' => Engaged(t)
      BY <1>2, <2>2, EngagedKept DEF LoadForRequest, RealtimeInFlight
    <3> QED
      BY <1>2, <3>1 DEF LoadForRequest, storeVars, Effect, Same
  <2> QED
    BY <2>1, <2>2
<1>3. ASSUME NEW q \in Requests, RequestStep(q)
      PROVE  Effect(t)
  <2> DEFINE u == req[q].task
  <2>1. CASE Reopen(q)
    <3>1. \A e \in Executors : exec'[e] = exec[e] \/ exec'[e].pc = "queued"
      BY <2>1, Begins DEF Reopen
    <3>2. Engaged(t)' => Engaged(t)
      BY <1>a, <2>1, <3>1, EngagedKept DEF Reopen, Reply, NoReq, RealtimeInFlight
    <3>3. CASE t = u
      BY <1>3, <2>1, <3>3 DEF Reopen, Effect, Engaged
    <3>4. CASE t # u
      BY <2>1, <3>2, <3>4 DEF Reopen, Effect, Same
    <3> QED
      BY <3>3, <3>4
  <2>2. CASE ~Reopen(q)
    <3>a. call' = call /\ exec' = exec
      BY <1>3, <2>2 DEF RequestStep, Reschedule, Unschedule, Cancel, CleanUp
    <3>b. \A p \in Requests : req'[p].task = t => req[p].task = t
      BY <1>a, <1>3, <2>2
      DEF RequestStep, Reschedule, Unschedule, Cancel, CleanUp, Reply, NoReq
    <3>1. Engaged(t)' => Engaged(t)
      BY <3>a, <3>b, EngagedKept DEF RealtimeInFlight
    <3>2. CASE CleanUp(q)
      BY <3>1, <3>2 DEF CleanUp, Effect, Same
    <3>3. CASE Reschedule(q) \/ Unschedule(q) \/ Cancel(q)
      <4>1. CASE t = u
        <5>1. Engaged(t)
          BY <1>3, <4>1 DEF Engaged
        <5>2. task'[t].status = "IN_PROGRESS" => Same(t)
          <6>1. CASE Cancel(q)
            BY <4>1, <6>1 DEF Cancel, SetFailed
          <6>2. CASE Reschedule(q) \/ Unschedule(q)
            <7>1. PICK when \in {"none", "future"}, s \in {"PENDING", "SCHEDULED"} :
                    task' = [task EXCEPT ![u].scheduled_time = when,
                                         ![u].status = Dirty(s, req[q].status, @)]
              BY <6>2 DEF Reschedule, Unschedule
            <7>2. /\ task'[t].status = Dirty(s, req[q].status, task[t].status)
                  /\ task'[t].updated_at = task[t].updated_at
              BY <4>1, <7>1
            <7> QED
              BY <7>2 DEF Dirty, Same
          <6> QED
            BY <3>3, <6>1, <6>2
        <5> QED
          BY <5>1, <5>2 DEF Effect
      <4>2. CASE t # u
        <5>1. task'[t] = task[t]
          BY <3>3, <4>2 DEF Reschedule, Unschedule, Cancel, SetFailed
        <5> QED
          BY <3>1, <5>1 DEF Effect, Same
      <4> QED
        BY <4>1, <4>2
    <3> QED
      BY <1>3, <2>2, <3>2, <3>3 DEF RequestStep
  <2> QED
    BY <2>1, <2>2
<1> QED
  BY <1>1, <1>2, <1>3 DEF User, UserStep, Request

LEMMA ClockEffect ==
  ASSUME JanitorInv, NEW u \in Tasks, ClockStep(u), NEW t \in Tasks
  PROVE  ~(Age(u) /\ t = u) => Effect(t)
<1>1. exec' = exec /\ req' = req /\ call' = call
  BY DEF ClockStep, apiVars
<1>2. Engaged(t)' => Engaged(t)
  BY <1>1, EngagedKept DEF RealtimeInFlight
<1>3. CASE ScheduleComesDue(u)
  BY <1>2, <1>3 DEF ScheduleComesDue, JanitorInv, TInv, StoreTypeOK, Effect, Same
<1>4. CASE RetryWindowElapses(u)
  BY <1>2, <1>4 DEF RetryWindowElapses, JanitorInv, TInv, StoreTypeOK, Effect, Same
<1>5. CASE Age(u) /\ t # u
  BY <1>2, <1>5 DEF Age, UpdatedAtAges, JanitorInv, TInv, StoreTypeOK, Effect, Same
<1> QED
  BY <1>3, <1>4, <1>5 DEF ClockStep

\* Only a task nobody works on grows old.
LEMMA ClockJanitor ==
  ASSUME JanitorScope, JanitorInv, NEW u \in Tasks, ClockStep(u)
  PROVE  StuckIsIdle' /\ SweptIsIdle'
<1>0. exec' = exec /\ req' = req /\ call' = call /\ worker' = worker
  BY DEF ClockStep, apiVars
<1>1. CASE ~Age(u)
  BY <1>0, <1>1, ClockEffect, EffectsKeep
<1>2. CASE Age(u)
  <2>1. ~Engaged(u)
    BY <1>2 DEF Age, UnderWay, Engaged
  <2>2. \A t \in Tasks : Engaged(t)' => Engaged(t)
    BY <1>0, EngagedKept DEF RealtimeInFlight
  <2>3. \A t \in Tasks : /\ task'[t].status = task[t].status
                         /\ t # u => task'[t] = task[t]
    BY <1>2 DEF Age, UpdatedAtAges, JanitorInv, TInv, StoreTypeOK
  <2>4. StuckIsIdle'
    BY <2>1, <2>2, <2>3 DEF StuckIsIdle, Stuck, JanitorInv
  <2>5. SweptIsIdle'
    BY <1>0, <2>2, <2>3 DEF SweptIsIdle, JanitorInv
  <2> QED
    BY <2>4, <2>5
<1> QED
  BY <1>1, <1>2

LEMMA PollJanitor ==
  ASSUME JanitorInv, Poll
  PROVE  StuckIsIdle' /\ SweptIsIdle'
<1> USE DEF JanitorInv, TInv, StoreTypeOK
<1>0. SchedulerStep /\ req' = req
  BY DEF Poll, apiVars
<1>1. call' = call
  BY <1>0 DEF SchedulerStep, GetDueTasks, TakeDue, Promote, ScheduleRetryWindows,
     GetRetryableFailedTasks, TakeRetryable, MarkForRetry, ExecutionReturns, FindStuck, FailStuck
<1>2. exec' = exec \/ \E t : StartWorker(t)
  BY <1>0 DEF SchedulerStep, GetDueTasks, TakeDue, Promote, ScheduleRetryWindows,
     GetRetryableFailedTasks, TakeRetryable, MarkForRetry, ExecutionReturns, FindStuck, FailStuck
<1>3. \A t \in Tasks : Engaged(t)' => Engaged(t)
  <2>1. \A e \in Executors : exec'[e] = exec[e] \/ exec'[e].pc = "load"
    BY <1>2, Begins
  <2> QED
    BY <1>0, <1>1, <2>1, EngagedKept DEF RealtimeInFlight
<1>4. CASE GetDueTasks \/ TakeDue \/ GetRetryableFailedTasks \/ TakeRetryable
           \/ ExecutionReturns
  <2>1. worker'.pc # "sweep"
    BY <1>4 DEF GetDueTasks, TakeDue, GetRetryableFailedTasks, TakeRetryable, ExecutionReturns,
       Now
  <2>2. task' = task
    BY <1>4 DEF GetDueTasks, TakeDue, GetRetryableFailedTasks, TakeRetryable, ExecutionReturns,
       storeVars
  <2> QED
    BY <1>3, <2>1, <2>2 DEF StuckIsIdle, Stuck, SweptIsIdle
<1>5. CASE Promote \/ MarkForRetry
  <2>1. worker'.pc # "sweep"
    BY <1>5 DEF Promote, MarkForRetry, Now
  <2>2. \A t \in Tasks : task'[t].status = "PENDING" \/ task'[t] = task[t]
    BY <1>5, RowType DEF Promote, MarkForRetry, SetStatus, Row
  <2> QED
    BY <1>3, <2>1, <2>2 DEF StuckIsIdle, Stuck, SweptIsIdle
<1>6. CASE ScheduleRetryWindows
  <2>1. worker'.pc # "sweep"
    BY <1>6 DEF ScheduleRetryWindows, Now
  <2>2. \A t \in Tasks : Same(t)
    BY <1>6 DEF ScheduleRetryWindows, Same
  <2> QED
    BY <1>3, <2>1, <2>2 DEF StuckIsIdle, Stuck, SweptIsIdle, Same
<1>7. CASE FindStuck
  <2>1. task' = task
    BY <1>7 DEF FindStuck, storeVars
  <2>2. \A t \in Tasks : worker'.pc = "sweep" /\ t \in worker'.list => Stuck(t)
    BY <1>7 DEF FindStuck, NewTick
  <2> QED
    BY <1>3, <2>1, <2>2 DEF StuckIsIdle, Stuck, SweptIsIdle
<1>8. CASE FailStuck
  <2>1. worker'.pc # "sweep"
    BY <1>8 DEF FailStuck, NewTick
  <2>2. ASSUME NEW t \in Tasks
        PROVE  task'[t].status = "FAILED" \/ task'[t] = task[t]
    <3>1. CASE t \in worker.list
      <4>1. task'[t] = [task[t] EXCEPT !.status = "FAILED",
              !.error_reason = IF t \in worker.blank THEN "network" ELSE @]
        BY <1>8, <3>1 DEF FailStuck
      <4> QED
        BY <4>1, RowType DEF Row
    <3>2. CASE t \notin worker.list
      BY <1>8, <3>2 DEF FailStuck
    <3> QED
      BY <3>1, <3>2
  <2> QED
    BY <1>3, <2>1, <2>2 DEF StuckIsIdle, Stuck, SweptIsIdle
<1> QED
  BY <1>0, <1>4, <1>5, <1>6, <1>7, <1>8 DEF SchedulerStep

\* A crash ends calls and callbacks, it begins none.
LEMMA CrashedCalls ==
  ASSUME TInv, ApiCrash \/ WorkerCrash, NEW t \in Tasks, NEW a \in Calls
  PROVE  /\ call'[t][a].st \in {"lost", "stray", call[t][a].st}
         /\ call'[t][a].cb \in {"over", call[t][a].cb}
<1> DEFINE c == call[t][a]
           d == [c EXCEPT !.cb = IF @ = "armed" THEN "over" ELSE @]
<1>1. c \in CallRec
  BY CallType DEF TInv
<1>2. d.st = c.st /\ d.cb \in {"over", c.cb} /\ d \in CallRec
  BY <1>1 DEF CallRec
<1>3. \A k \in CallRec : Orphan(k).st \in {"lost", "stray"} /\ Orphan(k).cb = k.cb
  BY DEF CallRec, Orphan
<1>4. CASE ApiCrash
  <2>1. call'[t][a] \in {Orphan(d), d}
    BY <1>4 DEF ApiCrash
  <2> HIDE DEF d
  <2> QED
    BY <1>2, <1>3, <2>1
<1>5. CASE WorkerCrash
  <2>1. call'[t][a] \in {Orphan(c), c}
    BY <1>5 DEF WorkerCrash
  <2> QED
    BY <1>1, <1>3, <2>1
<1> QED
  BY <1>4, <1>5

LEMMA CrashJanitor ==
  ASSUME JanitorInv, ApiCrash \/ WorkerCrash
  PROVE  StuckIsIdle' /\ SweptIsIdle'
<1> USE DEF JanitorInv, TInv, ExecOK, ExecTypeOK, TeleTypeOK
<1>1. task' = task
  BY DEF ApiCrash, WorkerCrash, storeVars
<1>2. \A e \in Executors : exec'[e] = exec[e] \/ exec'[e].pc = "idle"
  BY DEF ApiCrash, WorkerCrash, Idle
<1>3. \A q \in Requests, t \in Tasks : req'[q].task = t => req[q].task = t
  BY DEF ApiCrash, WorkerCrash, NoReq, apiVars
<1>4. ASSUME NEW t \in Tasks, NEW a \in Calls, RealtimeInFlight(t, a)'
      PROVE  RealtimeInFlight(t, a)
  BY <1>4, CrashedCalls DEF RealtimeInFlight
<1>5. \A t \in Tasks : Engaged(t)' => Engaged(t)
  BY <1>2, <1>3, <1>4, EngagedKept
<1>6. worker'.pc = "sweep" => worker' = worker
  BY DEF ApiCrash, WorkerCrash, NewTick
<1> QED
  BY <1>1, <1>5, <1>6 DEF StuckIsIdle, Stuck, SweptIsIdle

LEMMA NextAdverse ==
  ASSUME TInv, AdverseIsSent, [Next]_vars
  PROVE  AdverseIsSent'
<1> SUFFICES ASSUME CallbackKinds = {}, NEW t \in Tasks, NEW a \in Calls
             PROVE  call'[t][a].cb \in {"none", "over"}
  BY DEF AdverseIsSent
<1> USE DEF TInv, TeleTypeOK, CallRec, AdverseIsSent
<1>a. ASSUME NEW u, NEW b, NEW s, Goto(u, b, s)
      PROVE  call'[t][a].cb \in {"none", "over"}
  <2>1. call'[t][a].cb = call[t][a].cb
    BY <1>a DEF Goto
  <2> QED
    BY <2>1
<1>1. ASSUME NEW u \in Tasks, NEW b \in Calls, CallStep(u, b)
      PROVE  call'[t][a].cb \in {"none", "over"}
  <2>1. CASE Answer(u, b)
    BY <2>1 DEF Answer
  <2>2. CASE RingOut(u, b)
    BY <2>2 DEF RingOut
  <2>3. CASE StreamRejected(u, b) \/ BridgeEnds(u, b) \/ StrayEnds(u, b) \/ FinalizeSave(u, b)
    BY <1>a, <2>3 DEF StreamRejected, BridgeEnds, StrayEnds, FinalizeSave
  <2>4. CASE FinalizeLoad(u, b)
    BY <2>4 DEF FinalizeLoad
  <2>5. CASE FinalizeStore(u, b)
    BY <2>5 DEF FinalizeStore
  <2> QED
    BY <1>1, <2>1, <2>2, <2>3, <2>4, <2>5 DEF CallStep
<1>2. ASSUME NEW u \in Tasks, NEW b \in Calls, CallbackStep(u, b)
      PROVE  call'[t][a].cb \in {"none", "over"}
  BY <1>2 DEF CallbackStep, CallbackLoad, CallbackStore, EndedCallback
<1>3. ASSUME NEW e \in Executors, ExecStep(e)
      PROVE  call'[t][a].cb \in {"none", "over"}
  <2>a. ASSUME NEW s, NEW c \in {"none", "over"}, NEW d,
               call' = [call EXCEPT ![exec[e].task][CallOf(e)].st = s,
                                    ![exec[e].task][CallOf(e)].cb = c,
                                    ![exec[e].task][CallOf(e)].sid = d]
        PROVE  call'[t][a].cb \in {"none", "over"}
    <3> DEFINE u == exec[e].task  b == CallOf(e)
    <3>0. call \in [Tasks -> [Calls -> CallRec]]
      OBVIOUS
    <3>1. CASE u = t /\ b = a
      <4>1. call' = [call EXCEPT ![t][a].st = s, ![t][a].cb = c, ![t][a].sid = d]
        BY ONLY <2>a, <3>1
      <4>2. call'[t][a].cb = c
        BY ONLY <3>0, <4>1, t \in Tasks, a \in Calls DEF CallRec
      <4> QED
        BY ONLY <4>2, c \in {"none", "over"}
    <3>2. CASE u # t \/ b # a
      <4> HIDE DEF u, b
      <4>1. call' = [call EXCEPT ![u][b].st = s, ![u][b].cb = c, ![u][b].sid = d]
        BY <2>a DEF u, b
      <4>2. call'[t][a].cb = call[t][a].cb
        BY ONLY <3>0, <3>2, <4>1, t \in Tasks, a \in Calls
      <4> QED
        BY <4>2
    <3> QED
      BY <3>1, <3>2
  <2>b. LegacyCallbacks = {"over"}
    BY DEF LegacyCallbacks
  <2>c. CASE UNCHANGED call
    BY <2>c
  <2>1. CASE Dial(e)
    <3>1. CASE exec[e].realtime
      BY <2>1, <2>a, <3>1 DEF Dial, Place
    <3>2. CASE ~exec[e].realtime
      <4>1. Place(exec[e].task, CallOf(e), "legacy", "over", TRUE)
        BY <2>1, <2>b, <3>2 DEF Dial
      <4> QED
        BY <2>a, <4>1 DEF Place
    <3> QED
      BY <3>1, <3>2
  <2>4. CASE DialRaises(e) \/ DialFails(e)
    <3>1. TryRaises(e)
      BY <2>4 DEF DialRaises, DialFails
    <3>2. CASE exec[e].realtime
      BY <2>a, <2>c, <3>1, <3>2 DEF TryRaises, Place
    <3>3. CASE ~exec[e].realtime
      BY <2>a, <2>b, <2>c, <3>1, <3>3 DEF TryRaises, Place
    <3> QED
      BY <3>2, <3>3
  <2>2. CASE TalkFails(e) \/ TalkEnds(e)
    <3>1. \E s : Goto(exec[e].task, CallOf(e), s)
      BY <2>2 DEF TalkFails, TalkEnds, LetGo
    <3> QED
      BY <1>a, <3>1
  <2>3. CASE UNCHANGED call
    BY <2>3
  <2> QED
    BY <1>3, <2>1, <2>2, <2>3, <2>4 DEF ExecStep, Acquire, Load, Claim, Seize, Create,
       CreateFails, StoreResult, Overrule
<1>4. CASE ApiCrash \/ WorkerCrash
  BY <1>4, CrashedCalls
<1>5. CASE UNCHANGED call
  BY <1>5
<1>6. SchedulerStep => UNCHANGED call
  BY DEF SchedulerStep, GetDueTasks, TakeDue, Promote, ScheduleRetryWindows,
     GetRetryableFailedTasks, TakeRetryable, MarkForRetry, ExecutionReturns, FindStuck, FailStuck
<1>7. \A q \in Requests : RequestStep(q) => UNCHANGED call
  BY DEF RequestStep, Reschedule, Unschedule, Cancel, CleanUp, Reopen
<1>8. UserStep => UNCHANGED call
  BY DEF UserStep, LoadForRequest, Execute
<1> QED
  BY <1>1, <1>2, <1>3, <1>4, <1>5, <1>6, <1>7, <1>8
  DEF Next, ClockStep, Telephone, Callback, Executor, Request, User, Poll, vars, teleVars

LEMMA NextJanitorInv == JanitorScope /\ JanitorInv /\ [Next]_vars => JanitorInv'
<1> SUFFICES ASSUME JanitorScope, JanitorInv, [Next]_vars
             PROVE  StuckIsIdle' /\ SweptIsIdle'
  BY NextTInv, NextRealtimeOnly, NextAdverse DEF JanitorInv, JanitorScope
<1>1. ASSUME NEW t \in Tasks, ClockStep(t)
      PROVE  StuckIsIdle' /\ SweptIsIdle'
  BY <1>1, ClockJanitor
<1>2. ASSUME NEW t \in Tasks, NEW a \in Calls, Telephone(t, a) \/ Callback(t, a)
      PROVE  StuckIsIdle' /\ SweptIsIdle'
  BY <1>2, CallEffect, EffectsKeep DEF Telephone, Callback
<1>3. ASSUME NEW e \in Executors, Executor(e)
      PROVE  StuckIsIdle' /\ SweptIsIdle'
  BY <1>3, ExecutorEffect, EffectsKeep DEF Executor
<1>4. CASE User \/ \E q \in Requests : Request(q)
  <2>1. UNCHANGED worker
    BY <1>4 DEF User, Request
  <2>2. \A t \in Tasks : Effect(t)
    BY <1>4, ApiEffect
  <2> QED
    BY <2>1, <2>2, EffectsKeep
<1>5. CASE UNCHANGED vars
  <2>1. ASSUME NEW t \in Tasks
        PROVE  Effect(t)
    BY <1>5, EngagedKept
    DEF vars, storeVars, teleVars, apiVars, RealtimeInFlight, Effect, Same
  <2>2. UNCHANGED worker
    BY <1>5 DEF vars, schedVars
  <2> QED
    BY <2>1, <2>2, EffectsKeep
<1> QED
  BY <1>1, <1>2, <1>3, <1>4, <1>5, PollJanitor, CrashJanitor DEF Next

LEMMA InitJanitorInv == Init => JanitorInv
<1>1. Init => StuckIsIdle
  BY DEF Init, StoreInit, NewRow, StuckIsIdle, Stuck
<1>2. Init => AdverseIsSent /\ SweptIsIdle
  BY DEF Init, TeleInit, NoCall, SchedInit, NewTick, AdverseIsSent, SweptIsIdle
<1> QED
  BY <1>1, <1>2, InitTInv, InitRealtimeOnly DEF JanitorInv

\* The janitor fails only tasks whose execution and call are over: whoever
\* claims a task stamps updated_at, nothing on the realtime path outlasts
\* MAX_IN_PROGRESS_MINUTES, and between the sweep's SELECT and its commit nobody
\* can take the task up again.  (scheduler/service.py:78-97; for the realtime
\* path, and without late callbacks or without manual retries: with both the
\* sweep can fail a task that was failed, retried and claimed meanwhile.)
THEOREM JanitorFailsNoRunningCall ==
  ASSUME JanitorScope
  PROVE  Spec => JanitorSparesRunning
<1>1. JanitorInv /\ [Next]_vars =>
        [\A t \in Tasks :
           /\ worker.pc = "sweep" /\ worker'.pc = "due"
           /\ task[t].status = "IN_PROGRESS" /\ task'[t].status = "FAILED"
           => ~InFlight(t)]_vars
  <2> SUFFICES ASSUME JanitorInv, [Next]_vars, NEW t \in Tasks,
                      worker.pc = "sweep", worker'.pc = "due",
                      task[t].status = "IN_PROGRESS", task'[t].status = "FAILED"
               PROVE  ~InFlight(t)
    OBVIOUS
  <2>1. Poll \/ WorkerCrash
    BY DEF Next, ClockStep, Telephone, Callback, Executor, Request, User, ApiCrash, vars,
       schedVars
  <2>2. FailStuck
    BY <2>1 DEF Poll, SchedulerStep, GetDueTasks, TakeDue, Promote, ScheduleRetryWindows,
       GetRetryableFailedTasks, TakeRetryable, MarkForRetry, ExecutionReturns, FindStuck,
       WorkerCrash, storeVars
  <2>3. t \in worker.list
    BY <2>2 DEF FailStuck
  <2>4. ~Engaged(t)
    BY <2>3 DEF JanitorInv, SweptIsIdle
  <2> QED
    BY <2>4 DEF JanitorInv, RealtimeOnly, Engaged, InFlight
<1> QED
  BY <1>1, JanitorScope, InitJanitorInv, NextJanitorInv, PTL DEF Spec, JanitorSparesRunning
=============================================================================
