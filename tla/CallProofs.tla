----------------------------- MODULE CallProofs ------------------------------
(***************************************************************************)
(* Which calls are placed, and who is on them: the running system          *)
(* implements the attempt ledger, the claim excludes whoever else would    *)
(* execute the task, without manual retries there is one call at a time,   *)
(* and the semaphore caps the legacy dialogs; for every number of tasks,   *)
(* attempts, tries, executors, requests and crashes.                       *)
(***************************************************************************)
EXTENDS SchedulerProofs, FiniteSetTheorems

USE TaskStoreAssumption, TelephonyAssumption, ExecutionAssumption, ApiAssumption
USE DEF Executors, Attempts, Tries

(* The attempt ledger *)

Placed(t, c) == call[t][c].st # "none"

\* The executor is about to make a try of calls.create for this attempt.
Dials(e, t, a) == exec[e].pc = "dial" /\ exec[e].task = t /\ exec[e].attempt = a

\* Why no attempt is called again once calls.create has returned: its number is
\* issued once, to one executor, which leaves the dial with the first answer and
\* else goes on to the next try; and no call is placed for a number not issued.
AttemptInv ==
  /\ \A t \in Tasks, c \in Calls :
       c[1] > issued[t] => ~Placed(t, c) /\ call[t][c].sid = FALSE
  /\ \A e \in Executors, c \in Calls :
       Dials(e, exec[e].task, c[1]) =>
         /\ c[1] <= issued[exec[e].task]
         /\ call[exec[e].task][c].sid = FALSE
         /\ c[2] >= exec[e].try => ~Placed(exec[e].task, c)
  /\ \A e, f \in Executors, t \in Tasks, a \in Attempts :
       Dials(e, t, a) /\ Dials(f, t, a) => e = f
  /\ \A e \in Executors : exec[e].pc = "talk" => Placed(exec[e].task, CallOf(e))

LedgerInv == TInv /\ AttemptInv

\* Steps that touch neither the rows' numbers nor which calls are placed, and
\* let nobody reach the dial.
CallsKept ==
  \A t \in Tasks, c \in Calls :
    /\ Placed(t, c)' <=> Placed(t, c)
    /\ call'[t][c].sid = call[t][c].sid

NoneReachesDial == \A e \in Executors : exec'[e].pc \in {"dial", "talk"} => exec'[e] = exec[e]

Quiet == UNCHANGED <<session, issued>> /\ CallsKept /\ NoneReachesDial

\* What a try may do to the calls: nothing, or the callee is rung.
Rings(t, c) == call'[t][c].st # "none"

Tried(t, c) ==
  /\ \A u \in Tasks, d \in Calls : ~(u = t /\ d = c) => call'[u][d] = call[u][d]
  /\ \/ call'[t][c] = call[t][c]
     \/ Rings(t, c)

LEMMA CallsUntouched == UNCHANGED call => CallsKept
  BY DEF CallsKept, Placed

LEMMA GotoKeepsCalls ==
  ASSUME TeleTypeOK, NEW t \in Tasks, NEW a \in Calls, NEW s, Goto(t, a, s), s # "none",
         Placed(t, a)
  PROVE  CallsKept
<1>1. ASSUME NEW u \in Tasks, NEW b \in Calls
      PROVE  /\ Placed(u, b)' <=> Placed(u, b)
             /\ call'[u][b].sid = call[u][b].sid
  BY DEF Goto, TeleTypeOK, CallRec, Placed
<1> QED
  BY <1>1 DEF CallsKept

\* A call that is placed stays placed, whatever else its entry says.
LEMMA EntryKeepsCalls ==
  ASSUME TeleTypeOK, NEW t \in Tasks, NEW a \in Calls, NEW k,
         call' = [call EXCEPT ![t][a] = k], Placed(t, a), k.st # "none",
         k.sid = call[t][a].sid
  PROVE  CallsKept
<1>1. ASSUME NEW u \in Tasks, NEW b \in Calls
      PROVE  /\ Placed(u, b)' <=> Placed(u, b)
             /\ call'[u][b].sid = call[u][b].sid
  <2>1. call'[u][b] = IF u = t /\ b = a THEN k ELSE call[u][b]
    BY DEF TeleTypeOK
  <2> HIDE DEF TeleTypeOK
  <2> QED
    BY <2>1 DEF Placed
<1> QED
  BY <1>1 DEF CallsKept

LEMMA CallQuiet ==
  ASSUME TInv, NEW t \in Tasks, NEW a \in Calls, CallStep(t, a) \/ CallbackStep(t, a),
         UNCHANGED exec
  PROVE  Quiet
<1> USE DEF TInv
<1>0. call[t][a] \in CallRec
  BY CallType
<1>1. UNCHANGED <<session, issued>>
  BY DEF CallStep, CallbackStep, Answer, StreamRejected, RingOut, BridgeEnds, StrayEnds,
     FinalizeLoad, FinalizeSave, FinalizeStore, CallbackLoad, CallbackStore, EndedCallback,
     WriteSession, storeVars
<1> SUFFICES CallsKept
  BY <1>1 DEF Quiet, NoneReachesDial
<1>2. CASE Answer(t, a) \/ RingOut(t, a)
  <2>1. PICK s \in {"live", "unanswered"}, cb \in {"over"} \cup CallbackKinds :
          call' = [call EXCEPT ![t][a].st = s, ![t][a].cb = cb]
    BY <1>2 DEF Answer, RingOut
  <2> DEFINE k == [call[t][a] EXCEPT !.st = s, !.cb = cb]
  <2>2. k.st = s /\ k.sid = call[t][a].sid
    BY <1>0 DEF CallRec
  <2>3. call' = [call EXCEPT ![t][a] = k]
    BY <2>1 DEF TeleTypeOK
  <2> HIDE DEF k
  <2> QED
    BY <1>2, <2>2, <2>3, EntryKeepsCalls DEF Answer, RingOut, Placed
<1>3. CASE \/ StreamRejected(t, a) \/ BridgeEnds(t, a) \/ StrayEnds(t, a)
           \/ FinalizeSave(t, a)
  BY <1>3, GotoKeepsCalls DEF StreamRejected, BridgeEnds, StrayEnds, FinalizeSave, Placed
<1>4. CASE FinalizeLoad(t, a) \/ FinalizeStore(t, a)
  <2>1. \E s \in {"loaded", "done"} : \E status, err, sess :
          call' = [call EXCEPT ![t][a].st = s, ![t][a].status = status,
                               ![t][a].err = err, ![t][a].sess = sess]
    <3>1. CASE FinalizeLoad(t, a)
      BY <3>1 DEF FinalizeLoad
    <3>2. CASE FinalizeStore(t, a)
      BY <3>2 DEF FinalizeStore
    <3> QED
      BY <1>4, <3>1, <3>2
  <2>a. PICK s \in {"loaded", "done"} : \E status, err, sess :
          call' = [call EXCEPT ![t][a].st = s, ![t][a].status = status,
                               ![t][a].err = err, ![t][a].sess = sess]
    BY <2>1
  <2>b. PICK status, err, sess :
          call' = [call EXCEPT ![t][a].st = s, ![t][a].status = status,
                               ![t][a].err = err, ![t][a].sess = sess]
    BY <2>a
  <2> DEFINE k == [call[t][a] EXCEPT !.st = s, !.status = status, !.err = err, !.sess = sess]
  <2>2. k.st = s /\ k.sid = call[t][a].sid
    BY <1>0 DEF CallRec
  <2>3. call' = [call EXCEPT ![t][a] = k]
    BY <2>b DEF TeleTypeOK
  <2> HIDE DEF k
  <2> QED
    BY <1>4, <2>2, <2>3, EntryKeepsCalls DEF FinalizeLoad, FinalizeStore, Placed
<1>6. ASSUME NEW s, NEW cb, call' = [call EXCEPT ![t][a].cb = cb, ![t][a].st = s],
             s = call[t][a].st \/ (call[t][a].st = "live" /\ s = "closing")
      PROVE  CallsKept
  <2>1. ASSUME NEW u \in Tasks, NEW b \in Calls
        PROVE  /\ Placed(u, b)' <=> Placed(u, b)
               /\ call'[u][b].sid = call[u][b].sid
    <3>1. CASE u = t /\ b = a
      BY <1>0, <1>6, <3>1 DEF TeleTypeOK, CallRec, Placed
    <3>2. CASE ~(u = t /\ b = a)
      BY <1>6, <3>2 DEF TeleTypeOK, Placed
    <3> QED
      BY <3>1, <3>2
  <2> QED
    BY <2>1 DEF CallsKept
<1>7. CASE CallbackLoad(t, a)
  <2> DEFINE s == IF call[t][a].st = "live" THEN "closing" ELSE call[t][a].st
             cb == IF task[t].status \in {"COMPLETED", "FAILED"} THEN "over" ELSE "armed"
  <2>1. call' = [call EXCEPT ![t][a].cb = cb, ![t][a].st = s]
    BY <1>0, <1>7 DEF CallbackLoad, TeleTypeOK, CallRec
  <2>2. s = call[t][a].st \/ (call[t][a].st = "live" /\ s = "closing")
    OBVIOUS
  <2> HIDE DEF s, cb
  <2> QED
    BY <1>6, <2>1, <2>2
<1>8. CASE CallbackStore(t, a)
  <2>1. ASSUME NEW u \in Tasks, NEW b \in Calls
        PROVE  /\ Placed(u, b)' <=> Placed(u, b)
               /\ call'[u][b].sid = call[u][b].sid
    BY <1>8 DEF CallbackStore, TeleTypeOK, CallRec, Placed
  <2> QED
    BY <2>1 DEF CallsKept
<1>9. CASE EndedCallback(t, a)
  BY <1>9, CallsUntouched DEF EndedCallback
<1> QED
  BY <1>2, <1>3, <1>4, <1>7, <1>8, <1>9 DEF CallStep, CallbackStep

LEMMA MovesReachNoDial ==
  ASSUME ExecTypeOK, NEW e \in Executors
  PROVE  /\ \A pc \in {"load", "claim", "seize", "create", "overrule"} : Advance(e, pc) => NoneReachesDial
         /\ Finish(e) => NoneReachesDial
         /\ \A res : exec' = [exec EXCEPT ![e].pc = "store", ![e].result = res]
                    => NoneReachesDial
<1> USE DEF ExecTypeOK, ExecRec, NoneReachesDial
<1>1. ASSUME NEW pc \in {"load", "claim", "seize", "create", "overrule"}, Advance(e, pc)
      PROVE  NoneReachesDial
  BY <1>1 DEF Advance
<1>2. CASE Finish(e)
  BY <1>2, IdleType DEF Finish
<1>3. ASSUME NEW res, exec' = [exec EXCEPT ![e].pc = "store", ![e].result = res]
      PROVE  NoneReachesDial
  BY <1>3
<1> QED
  BY <1>1, <1>2, <1>3

LEMMA ExecutorQuiet ==
  ASSUME LedgerInv, NEW e \in Executors, ExecStep(e)
  PROVE  Quiet \/ Create(e) \/ Dial(e) \/ DialRaises(e) \/ DialFails(e)
<1> USE DEF LedgerInv, TInv, ExecOK
<1> DEFINE t == exec[e].task
<1>0. CASE Acquire(e)
  <2>1. NoneReachesDial
    BY <1>0, MovesReachNoDial DEF Acquire
  <2> QED
    BY <1>0, <2>1, CallsUntouched DEF Acquire, Quiet, storeVars
<1>1. CASE Load(e)
  <2>1. NoneReachesDial
    <3>1. CASE Claimable(t)
      <4>1. PICK pc \in {"claim", "seize"}, b \in BOOLEAN :
              exec' = [exec EXCEPT ![e].pc = pc, ![e].realtime = b]
        BY <1>1, <3>1 DEF Load, Realtime
      <4> QED
        BY <4>1 DEF ExecTypeOK, ExecRec, NoneReachesDial
    <3>2. CASE ~Claimable(t)
      BY <1>1, <3>2, MovesReachNoDial DEF Load, Refused
    <3> QED
      BY <3>1, <3>2
  <2> QED
    BY <1>1, <2>1, CallsUntouched DEF Load, Quiet, storeVars
<1>2. CASE Claim(e) \/ Seize(e) \/ CreateFails(e)
  <2>1. NoneReachesDial
    BY <1>2, MovesReachNoDial DEF Claim, Seize, CreateFails, Refused
  <2> QED
    BY <1>2, <2>1, CallsUntouched DEF Claim, Seize, CreateFails, Quiet, storeVars
<1>3. CASE TalkFails(e) \/ TalkEnds(e)
  <2>1. NoneReachesDial
    BY <1>3, MovesReachNoDial DEF TalkFails, TalkEnds
  <2>2. t \in Tasks /\ CallOf(e) \in Calls /\ Placed(t, CallOf(e))
    BY <1>3, ExecType DEF TalkFails, TalkEnds, AttemptInv
  <2>3. PICK s \in {"done", "stray"} : Goto(t, CallOf(e), s)
    BY <1>3 DEF TalkFails, TalkEnds, LetGo
  <2>4. CallsKept
    BY <2>2, <2>3, GotoKeepsCalls
  <2> QED
    BY <1>3, <2>1, <2>4 DEF TalkFails, TalkEnds, Quiet, storeVars
<1>4. CASE StoreResult(e)
  BY <1>4, MovesReachNoDial, CallsUntouched DEF StoreResult, Quiet
<1>6. CASE Overrule(e)
  BY <1>6, MovesReachNoDial, CallsUntouched DEF Overrule, Quiet
<1> QED
  BY <1>0, <1>1, <1>2, <1>3, <1>4, <1>6 DEF ExecStep

LEMMA StartsReachNoDial ==
  ASSUME ExecTypeOK, NEW t, Spawn(t) \/ StartWorker(t) \/ UNCHANGED exec
  PROVE  NoneReachesDial
<1>1. \A pc \in {"queued", "load"} : [Idle EXCEPT !.pc = pc, !.task = t].pc \notin {"dial", "talk"}
  BY DEF Idle
<1> QED
  BY <1>1 DEF Spawn, StartWorker, ExecTypeOK, NoneReachesDial

LEMMA RequestQuiet ==
  ASSUME TInv, \/ UserStep
               \/ \E q \in Requests : RequestStep(q)
  PROVE  Quiet \/ \E q \in Requests : CleanUp(q)
<1> USE DEF TInv, ExecOK
<1>1. CASE UserStep
  <2>1. NoneReachesDial
    BY <1>1, StartsReachNoDial DEF UserStep, LoadForRequest, Execute
  <2> QED
    BY <1>1, <2>1, CallsUntouched DEF UserStep, LoadForRequest, Execute, storeVars, Quiet
<1>2. ASSUME NEW q \in Requests, Reschedule(q) \/ Unschedule(q) \/ Cancel(q) \/ Reopen(q)
      PROVE  Quiet
  <2>1. NoneReachesDial
    BY <1>2, StartsReachNoDial DEF Reschedule, Unschedule, Cancel, Reopen
  <2> QED
    BY <1>2, <2>1, CallsUntouched DEF Reschedule, Unschedule, Cancel, Reopen, Quiet
<1> QED
  BY <1>1, <1>2 DEF RequestStep

LEMMA SchedulerQuiet ==
  ASSUME TInv, SchedulerStep
  PROVE  Quiet
<1>1. /\ UNCHANGED <<session, issued, call>>
      /\ UNCHANGED exec \/ \E t : StartWorker(t)
  BY DEF SchedulerStep, GetDueTasks, TakeDue, Promote, ScheduleRetryWindows,
     GetRetryableFailedTasks, TakeRetryable, MarkForRetry, ExecutionReturns, FindStuck, FailStuck,
     storeVars
<1> QED
  BY <1>1, StartsReachNoDial, CallsUntouched DEF TInv, ExecOK, Quiet

\* A crash orphans calls, and orphans only calls that were placed.
LEMMA CrashQuiet ==
  ASSUME TInv, ApiCrash \/ WorkerCrash
  PROVE  Quiet
<1> USE DEF TInv, ExecOK
<1>0. \A k \in CallRec : Orphan(k).sid = k.sid /\ Orphan(k).st # "none"
  BY DEF Orphan, CallRec
<1>1. ASSUME NEW t \in Tasks, NEW c \in Calls
      PROVE  /\ Placed(t, c)' <=> Placed(t, c)
             /\ call'[t][c].sid = call[t][c].sid
  <2> DEFINE k == [call[t][c] EXCEPT !.cb = IF @ = "armed" THEN "over" ELSE @]
  <2>1. call[t][c] \in CallRec
    BY CallType
  <2>2. k \in CallRec /\ k.sid = call[t][c].sid /\ k.st = call[t][c].st
    BY <2>1 DEF CallRec
  <2>3. CASE ApiCrash
    <3>1. \/ call'[t][c] = k
          \/ call'[t][c] = Orphan(k) /\ k.st # "none"
      BY <2>3 DEF ApiCrash, DrivenBy
    <3> HIDE DEF k
    <3> QED
      BY <1>0, <2>2, <3>1 DEF Placed
  <2>4. CASE WorkerCrash
    <3>1. \/ call'[t][c] = call[t][c]
          \/ call'[t][c] = Orphan(call[t][c]) /\ call[t][c].st # "none"
      BY <2>4 DEF WorkerCrash, DrivenBy
    <3> QED
      BY <1>0, <2>1, <3>1 DEF Placed
  <2> QED
    BY <2>3, <2>4
<1>2. NoneReachesDial
  BY IdleType DEF ApiCrash, WorkerCrash, NoneReachesDial, ExecTypeOK
<1> QED
  BY <1>1, <1>2 DEF CallsKept, ApiCrash, WorkerCrash, Quiet, storeVars

\* A step opens an attempt, strikes one, tries to place a call, or is quiet.
LEMMA StepKinds ==
  ASSUME LedgerInv, [Next]_vars
  PROVE  \/ Quiet
         \/ \E e \in Executors : Create(e) \/ Dial(e) \/ DialRaises(e) \/ DialFails(e)
         \/ \E q \in Requests : CleanUp(q)
<1> USE DEF LedgerInv
<1>1. ASSUME NEW t \in Tasks, ClockStep(t)
      PROVE  Quiet
  BY <1>1, CallsUntouched DEF ClockStep, Age, ScheduleComesDue, RetryWindowElapses,
     UpdatedAtAges, Quiet, NoneReachesDial
<1>2. CASE UNCHANGED vars
  BY <1>2, CallsUntouched DEF vars, storeVars, teleVars, Quiet, NoneReachesDial
<1> QED
  BY <1>1, <1>2, CallQuiet, ExecutorQuiet, RequestQuiet, SchedulerQuiet, CrashQuiet
  DEF Next, Telephone, Callback, Executor, User, Request, Poll

-----------------------------------------------------------------------------
LEMMA InitLedgerInv == Init => LedgerInv
<1> SUFFICES ASSUME Init
             PROVE  AttemptInv
  BY InitTInv DEF LedgerInv
<1>1. \A t \in Tasks, c \in Calls : ~Placed(t, c) /\ call[t][c].sid = FALSE
  BY DEF Init, TeleInit, NoCall, Placed
<1>2. \A e \in Executors : exec[e].pc = "idle"
  BY DEF Init, ExecInit, Idle
<1> QED
  BY <1>1, <1>2 DEF AttemptInv, Dials

LEMMA CreateKeeps ==
  ASSUME LedgerInv, NEW e \in Executors, Create(e)
  PROVE  AttemptInv'
<1> USE DEF LedgerInv, TInv
<1> DEFINE t == exec[e].task  n == issued[t] + 1
<1>1. /\ t \in Tasks /\ n \in Attempts /\ issued \in [Tasks -> 0..MaxAttempts]
      /\ issued' = [issued EXCEPT ![t] = n]
      /\ UNCHANGED call
  BY ExecType DEF Create, CreateSession, StoreTypeOK
<1>2. /\ exec'[e].pc = "dial" /\ exec'[e].task = t /\ exec'[e].attempt = n
      /\ \A f \in Executors : f # e => exec'[f] = exec[f]
  BY DEF Create, ExecOK, ExecTypeOK, ExecRec
<1>3. \A u \in Tasks : issued[u] <= issued'[u]
  BY <1>1
<1>4. \A u \in Tasks, c \in Calls :
        c[1] > issued'[u] => ~Placed(u, c)' /\ call'[u][c].sid = FALSE
  BY <1>1, <1>3, CallNumbers DEF AttemptInv, Placed
<1>5. ASSUME NEW f \in Executors, NEW c \in Calls, Dials(f, exec[f].task, c[1])'
      PROVE  /\ c[1] <= issued'[exec'[f].task]
             /\ call'[exec'[f].task][c].sid = FALSE
             /\ c[2] >= exec'[f].try => ~Placed(exec[f].task, c)'
  <2>1. CASE f = e
    <3>1. c[1] = n /\ c[1] > issued[t]
      BY <1>1, <1>2, <1>5, <2>1 DEF Dials
    <3> QED
      BY <1>1, <1>2, <2>1, <3>1 DEF AttemptInv, Placed
  <2>2. CASE f # e
    <3>1. exec'[f] = exec[f] /\ Dials(f, exec[f].task, c[1]) /\ exec[f].task \in Tasks
      BY <1>2, <1>5, <2>2, ExecType DEF Dials
    <3>2. /\ c[1] <= issued[exec[f].task]
          /\ call[exec[f].task][c].sid = FALSE
          /\ c[2] >= exec[f].try => ~Placed(exec[f].task, c)
      BY <3>1 DEF AttemptInv
    <3> QED
      BY <1>1, <1>3, <3>1, <3>2, CallNumbers DEF Placed
  <2> QED
    BY <2>1, <2>2
<1>6. ASSUME NEW f \in Executors, NEW u \in Tasks, NEW a \in Attempts, f # e, Dials(f, u, a)'
      PROVE  Dials(f, u, a) /\ a <= issued[u]
  <2>1. Dials(f, u, a) /\ exec[f].task = u
    BY <1>2, <1>6 DEF Dials
  <2>2. 1 \in Tries
    OBVIOUS
  <2>3. <<a, 1>> \in Calls /\ <<a, 1>>[1] = a
    BY <2>2, CallNumbers
  <2> QED
    BY <2>1, <2>3 DEF AttemptInv
<1>7. \A f, g \in Executors, u \in Tasks, a \in Attempts :
        Dials(f, u, a)' /\ Dials(g, u, a)' => f = g
  <2> SUFFICES ASSUME NEW f \in Executors, NEW g \in Executors, NEW u \in Tasks,
                      NEW a \in Attempts, Dials(f, u, a)', Dials(g, u, a)', f # g
               PROVE  FALSE
    OBVIOUS
  <2>1. CASE f # e /\ g # e
    BY <1>6, <2>1 DEF AttemptInv
  <2>2. ASSUME NEW h \in Executors, h # e, Dials(h, u, a)', Dials(e, u, a)'
        PROVE  FALSE
    <3>1. a <= issued[u] /\ u = t /\ a = n
      BY <1>2, <1>6, <2>2 DEF Dials
    <3> QED
      BY <1>1, <3>1
  <2> QED
    BY <2>1, <2>2
<1>8. \A f \in Executors : exec'[f].pc = "talk" => Placed(exec[f].task, CallOf(f))'
  <2> SUFFICES ASSUME NEW f \in Executors, exec'[f].pc = "talk"
               PROVE  Placed(exec[f].task, CallOf(f))'
    OBVIOUS
  <2>1. exec'[f] = exec[f]
    BY <1>2
  <2>2. Placed(exec[f].task, CallOf(f))
    BY <2>1 DEF AttemptInv
  <2> QED
    BY <1>1, <2>1, <2>2 DEF Placed, CallOf
<1> QED
  BY <1>4, <1>5, <1>7, <1>8 DEF AttemptInv

\* What a try does: the call is placed and confirmed and the executor leaves the
\* dial, or nothing happens, or the call is placed and its answer lost; after
\* the last two the executor tries once more or gives up.
LEMMA TryEffect ==
  ASSUME TInv, NEW e \in Executors, Dial(e) \/ DialRaises(e) \/ DialFails(e)
  PROVE  /\ exec[e].pc = "dial" /\ exec[e].task \in Tasks /\ CallOf(e) \in Calls
         /\ CallOf(e)[1] = exec[e].attempt /\ CallOf(e)[2] = exec[e].try
         /\ UNCHANGED <<session, issued>>
         /\ Tried(exec[e].task, CallOf(e))
         /\ \/ /\ call'[exec[e].task][CallOf(e)].sid = TRUE
               /\ Rings(exec[e].task, CallOf(e)) /\ exec'[e].pc # "dial"
            \/ UNCHANGED call /\ exec'[e].pc # "talk"
            \/ /\ RepliesMayBeLost /\ Rings(exec[e].task, CallOf(e))
               /\ call'[exec[e].task][CallOf(e)].sid = FALSE /\ exec'[e].pc # "talk"
         /\ \A f \in Executors : f # e => exec'[f] = exec[f]
         /\ \/ exec'[e].pc \in {"idle", "store"}
            \/ /\ exec'[e].pc = "talk"
               /\ exec'[e].task = exec[e].task /\ CallOf(e)' = CallOf(e)
            \/ /\ exec'[e].pc = "dial"
               /\ exec'[e].task = exec[e].task /\ exec'[e].attempt = exec[e].attempt
               /\ exec'[e].try = exec[e].try + 1
<1> USE DEF TInv, ExecOK, ExecTypeOK
<1> DEFINE t == exec[e].task  c == CallOf(e)
<1>1. exec[e].pc = "dial" /\ exec[e] \in ExecRec
  BY DEF Dial, DialRaises, DialFails
<1>2. /\ t \in Tasks /\ c \in Calls /\ c[1] = exec[e].attempt /\ c[2] = exec[e].try
  BY <1>1, ExecType DEF CallOf
<1>3. ASSUME NEW s, NEW cb, NEW sid \in BOOLEAN, s # "none",
             call' = [call EXCEPT ![t][c].st = s, ![t][c].cb = cb, ![t][c].sid = sid]
      PROVE  Tried(t, c) /\ Rings(t, c) /\ call'[t][c].sid = sid
  <2> DEFINE k == [call[t][c] EXCEPT !.st = s, !.cb = cb, !.sid = sid]
  <2>1. call[t][c] \in CallRec
    BY <1>2, CallType
  <2>2. k.st = s /\ k.sid = sid
    BY <2>1 DEF CallRec
  <2>3. call' = [call EXCEPT ![t][c] = k]
    BY <1>2, <1>3 DEF TeleTypeOK
  <2> HIDE DEF k, t, c
  <2>4. \A u \in Tasks, d \in Calls : call'[u][d] = IF u = t /\ d = c THEN k ELSE call[u][d]
    BY <1>2, <2>3 DEF TeleTypeOK
  <2>5. call'[t][c] = k
    BY <1>2, <2>4
  <2>6. s # "none"
    BY <1>3
  <2>7. call'[t][c].st # "none" /\ call'[t][c].sid = sid
    BY <2>2, <2>5, <2>6, Zenon
  <2>8. \A u \in Tasks, d \in Calls : ~(u = t /\ d = c) => call'[u][d] = call[u][d]
    BY <2>4
  <2>9. Tried(t, c)
    BY <2>7, <2>8 DEF Tried, Rings
  <2> QED
    BY <2>7, <2>9 DEF Rings
<1>4. CASE Dial(e)
  <2>1. Tried(t, c) /\ Rings(t, c) /\ call'[t][c].sid = TRUE
    <3>1. CASE exec[e].realtime
      BY <1>3, <1>4, <3>1 DEF Dial, Place
    <3>2. CASE ~exec[e].realtime
      BY <1>3, <1>4, <3>2 DEF Dial, Place
    <3> QED
      BY <3>1, <3>2
  <2>2. /\ \A f \in Executors : f # e => exec'[f] = exec[f]
        /\ \/ exec'[e].pc = "idle"
           \/ exec'[e].pc = "talk" /\ exec'[e].task = t /\ CallOf(e)' = c
    <3>1. CASE Finish(e)
      BY <1>1, <3>1, IdleType DEF Finish
    <3>2. CASE Advance(e, "talk")
      BY <1>1, <3>2 DEF Advance, ExecRec, CallOf
    <3> QED
      BY <1>4, <3>1, <3>2 DEF Dial
  <2> QED
    BY <1>1, <1>2, <1>4, <2>1, <2>2 DEF Dial, storeVars
<1>5. CASE DialRaises(e) \/ DialFails(e)
  <2>1. \/ UNCHANGED call
        \/ /\ RepliesMayBeLost
           /\ Tried(t, c) /\ Rings(t, c) /\ call'[t][c].sid = FALSE
    <3> SUFFICES ASSUME call' # call
                 PROVE  /\ RepliesMayBeLost
                        /\ Tried(t, c) /\ Rings(t, c) /\ call'[t][c].sid = FALSE
      OBVIOUS
    <3>1. RepliesMayBeLost
      BY <1>5 DEF DialRaises, DialFails, TryRaises
    <3>2. CASE exec[e].realtime
      BY <1>3, <1>5, <3>1, <3>2 DEF DialRaises, DialFails, TryRaises, Place
    <3>3. CASE ~exec[e].realtime
      <4>1. PICK cb : Place(t, c, "stray", cb, FALSE)
        BY <1>5, <3>3 DEF DialRaises, DialFails, TryRaises
      <4> QED
        BY <1>3, <3>1, <4>1 DEF Place
    <3> QED
      BY <3>2, <3>3
  <2>2. Tried(t, c)
    BY <2>1 DEF Tried
  <2>3. /\ \A f \in Executors : f # e => exec'[f] = exec[f]
        /\ \/ exec'[e].pc \in {"idle", "store"}
           \/ /\ exec'[e].pc = "dial" /\ exec'[e].task = t
              /\ exec'[e].attempt = exec[e].attempt /\ exec'[e].try = exec[e].try + 1
    BY <1>1, <1>5, IdleType DEF DialRaises, DialFails, Finish, ExecRec
  <2> QED
    BY <1>1, <1>2, <1>5, <2>1, <2>2, <2>3 DEF DialRaises, DialFails, storeVars
<1> QED
  BY <1>4, <1>5

LEMMA TryKeeps ==
  ASSUME LedgerInv, NEW e \in Executors, Dial(e) \/ DialRaises(e) \/ DialFails(e)
  PROVE  AttemptInv'
<1> USE DEF LedgerInv, TInv
<1> DEFINE t == exec[e].task  c == CallOf(e)
<1>1. /\ exec[e].pc = "dial" /\ t \in Tasks /\ c \in Calls
      /\ c[1] = exec[e].attempt /\ c[2] = exec[e].try
      /\ UNCHANGED <<session, issued>>
      /\ \A u \in Tasks, d \in Calls : ~(u = t /\ d = c) => call'[u][d] = call[u][d]
      /\ call'[t][c].sid = TRUE => exec'[e].pc # "dial"
      /\ exec'[e].pc = "talk" =>
           Rings(t, c) /\ exec'[e].task = t /\ CallOf(e)' = c
      /\ \A f \in Executors : f # e => exec'[f] = exec[f]
      /\ exec'[e].pc = "dial" =>
           /\ exec'[e].task = t /\ exec'[e].attempt = c[1] /\ exec'[e].try = c[2] + 1
           /\ call'[t][c].sid = FALSE
  <2>1. Dials(e, t, c[1]) /\ call[t][c].sid = FALSE
    BY TryEffect DEF Dials, AttemptInv
  <2> QED
    BY <2>1, TryEffect DEF Tried
<1>2. Dials(e, t, c[1]) /\ c[1] <= issued[t] /\ c[1] \in Attempts /\ c[2] \in Nat
  BY <1>1, CallNumbers DEF AttemptInv, Dials
<1> HIDE DEF t, c
<1>3. ASSUME NEW f \in Executors, NEW u \in Tasks, NEW a \in Attempts, Dials(f, u, a)'
      PROVE  Dials(f, u, a)
  BY <1>1, <1>2, <1>3 DEF Dials, t
<1>4. \A u \in Tasks, d \in Calls :
        d[1] > issued'[u] => ~Placed(u, d)' /\ call'[u][d].sid = FALSE
  <2> SUFFICES ASSUME NEW u \in Tasks, NEW d \in Calls, d[1] > issued[u]
               PROVE  ~Placed(u, d)' /\ call'[u][d].sid = FALSE
    BY <1>1
  <2>1. ~(u = t /\ d = c)
    BY <1>1, <1>2, CallNumbers DEF TypeOK, StoreTypeOK
  <2> QED
    BY <1>1, <2>1 DEF AttemptInv, Placed
<1>5. ASSUME NEW f \in Executors, NEW d \in Calls, Dials(f, exec[f].task, d[1])'
      PROVE  /\ d[1] <= issued'[exec'[f].task]
             /\ call'[exec'[f].task][d].sid = FALSE
             /\ d[2] >= exec'[f].try => ~Placed(exec[f].task, d)'
  <2>1. CASE f = e
    <3>1. /\ exec'[e].pc = "dial" /\ exec'[e].task = t /\ d[1] = c[1]
          /\ exec'[e].try = c[2] + 1
      BY <1>1, <1>5, <2>1 DEF Dials
    <3>2. call[t][d].sid = FALSE /\ (d[2] >= c[2] => ~Placed(t, d))
      BY <1>1, <1>2, <3>1 DEF AttemptInv, t
    <3>3. d[2] \in Nat
      BY CallNumbers
    <3>4. CASE d = c
      BY <1>1, <1>2, <2>1, <3>1, <3>4
    <3>5. CASE d # c
      BY <1>1, <1>2, <2>1, <3>1, <3>2, <3>3, <3>5 DEF Placed
    <3> QED
      BY <3>4, <3>5
  <2>2. CASE f # e
    <3>1. exec'[f] = exec[f] /\ Dials(f, exec[f].task, d[1]) /\ exec[f].task \in Tasks
      BY <1>1, <1>5, <2>2, ExecType DEF Dials
    <3>2. /\ d[1] <= issued[exec[f].task]
          /\ call[exec[f].task][d].sid = FALSE
          /\ d[2] >= exec[f].try => ~Placed(exec[f].task, d)
      BY <3>1 DEF AttemptInv
    <3>3. ~(exec[f].task = t /\ d = c)
      BY <1>1, <1>2, <2>2, <3>1 DEF AttemptInv
    <3> QED
      BY <1>1, <3>1, <3>2, <3>3 DEF Placed
  <2> QED
    BY <2>1, <2>2
<1>6. \A f, g \in Executors, u \in Tasks, a \in Attempts :
        Dials(f, u, a)' /\ Dials(g, u, a)' => f = g
  BY <1>3 DEF AttemptInv
<1>7. \A f \in Executors : exec'[f].pc = "talk" => Placed(exec[f].task, CallOf(f))'
  <2> SUFFICES ASSUME NEW f \in Executors, exec'[f].pc = "talk"
               PROVE  Placed(exec[f].task, CallOf(f))'
    OBVIOUS
  <2>1. CASE f = e
    BY <1>1, <2>1 DEF Placed, Rings
  <2>2. CASE f # e
    <3>1. exec'[f] = exec[f] /\ Placed(exec[f].task, CallOf(f))
      BY <1>1, <2>2 DEF AttemptInv
    <3>2. exec[f].task \in Tasks /\ CallOf(f) \in Calls
      BY <1>1, <2>2, ExecType
    <3>3. CASE exec[f].task = t /\ CallOf(f) = c
      <4>1. call'[t][c] = call[t][c] \/ call'[t][c].st # "none"
        BY TryEffect DEF Tried, Rings, t, c
      <4>2. call[t][c].st # "none"
        BY <3>1, <3>3 DEF Placed
      <4>3. call'[exec'[f].task][CallOf(f)'] = call'[t][c]
        BY <3>1, <3>3 DEF CallOf
      <4> QED
        BY <4>1, <4>2, <4>3 DEF Placed
    <3>4. CASE ~(exec[f].task = t /\ CallOf(f) = c)
      BY <1>1, <3>1, <3>2, <3>4 DEF Placed, CallOf
    <3> QED
      BY <3>3, <3>4
  <2> QED
    BY <2>1, <2>2
<1> QED
  BY <1>4, <1>5, <1>6, <1>7 DEF AttemptInv

LEMMA NextLedgerInv == LedgerInv /\ [Next]_vars => LedgerInv'
<1> SUFFICES ASSUME LedgerInv, [Next]_vars
             PROVE  AttemptInv'
  BY NextTInv DEF LedgerInv
<1> USE DEF LedgerInv
<1>1. CASE Quiet
  <2>1. ASSUME NEW e \in Executors, exec'[e].pc \in {"dial", "talk"}
        PROVE  exec'[e] = exec[e] /\ exec[e].task \in Tasks /\ CallOf(e) \in Calls
    BY <1>1, <2>1, ExecType DEF Quiet, NoneReachesDial, TInv
  <2>2. \A t \in Tasks, c \in Calls :
          c[1] > issued'[t] => ~Placed(t, c)' /\ call'[t][c].sid = FALSE
    BY <1>1 DEF Quiet, CallsKept, AttemptInv
  <2>3. ASSUME NEW e \in Executors, NEW c \in Calls, Dials(e, exec[e].task, c[1])'
        PROVE  /\ c[1] <= issued'[exec'[e].task]
               /\ call'[exec'[e].task][c].sid = FALSE
               /\ c[2] >= exec'[e].try => ~Placed(exec[e].task, c)'
    <3>1. /\ exec'[e] = exec[e] /\ exec[e].task \in Tasks
          /\ Dials(e, exec[e].task, c[1])
      BY <2>1, <2>3 DEF Dials
    <3>2. /\ c[1] <= issued[exec[e].task]
          /\ call[exec[e].task][c].sid = FALSE
          /\ c[2] >= exec[e].try => ~Placed(exec[e].task, c)
      BY <3>1 DEF AttemptInv
    <3>3. /\ call'[exec[e].task][c].sid = call[exec[e].task][c].sid
          /\ (call'[exec[e].task][c].st # "none") <=> Placed(exec[e].task, c)
      BY <1>1, <3>1 DEF Quiet, CallsKept, Placed
    <3> QED
      BY <1>1, <3>1, <3>2, <3>3 DEF Quiet, Placed
  <2>4. \A e, f \in Executors, t \in Tasks, a \in Attempts :
          Dials(e, t, a)' /\ Dials(f, t, a)' => e = f
    BY <2>1 DEF Dials, AttemptInv
  <2>5. \A e \in Executors : exec'[e].pc = "talk" => Placed(exec[e].task, CallOf(e))'
    <3> SUFFICES ASSUME NEW e \in Executors, exec'[e].pc = "talk"
                 PROVE  Placed(exec[e].task, CallOf(e))'
      OBVIOUS
    <3>1. /\ exec'[e] = exec[e] /\ exec[e].task \in Tasks /\ CallOf(e) \in Calls
          /\ Placed(exec[e].task, CallOf(e))
      BY <2>1 DEF AttemptInv
    <3>2. (call'[exec[e].task][CallOf(e)].st # "none") <=> Placed(exec[e].task, CallOf(e))
      BY <1>1, <3>1 DEF Quiet, CallsKept, Placed
    <3> QED
      BY <3>1, <3>2 DEF Placed, CallOf
  <2> QED
    BY <2>2, <2>3, <2>4, <2>5 DEF AttemptInv
<1>2. ASSUME NEW q \in Requests, CleanUp(q)
      PROVE  AttemptInv'
  BY <1>2 DEF CleanUp, DeleteSession, AttemptInv, Dials, Placed, CallOf
<1> QED
  BY <1>1, <1>2, StepKinds, CreateKeeps, TryKeeps

-----------------------------------------------------------------------------
(* The refinement *)

LEMMA InitLedger == Init => Ledger!LedgerInit
<1> SUFFICES ASSUME Init
             PROVE  Ledger!LedgerInit
  OBVIOUS
<1>1. \A t \in Tasks, c \in Calls : call[t][c].st = "none" /\ call[t][c].sid = FALSE
  BY DEF Init, TeleInit, NoCall
<1> QED
  BY <1>1 DEF Init, StoreInit, Ledger!LedgerInit

LEMMA CallsKeptStutter ==
  ASSUME CallsKept
  PROVE  /\ UNCHANGED [t \in Tasks |-> {c \in Calls : call[t][c].st # "none"}]
         /\ UNCHANGED [t \in Tasks |-> {c \in Calls : call[t][c].sid}]
<1>1. \A t \in Tasks :
        {c \in Calls : call'[t][c].st # "none"} = {c \in Calls : call[t][c].st # "none"}
  BY DEF CallsKept, Placed
<1>2. \A t \in Tasks : {c \in Calls : call'[t][c].sid} = {c \in Calls : call[t][c].sid}
  BY DEF CallsKept
<1> QED
  BY <1>1, <1>2

LEMMA StepLedger ==
  ASSUME LedgerInv, [Next]_vars
  PROVE  [Ledger!LedgerNext]_(Ledger!ledgerVars)
<1> USE DEF LedgerInv
<1> DEFINE placed    == [t \in Tasks |-> {c \in Calls : call[t][c].st # "none"}]
           confirmed == [t \in Tasks |-> {c \in Calls : call[t][c].sid}]
<1>1. CASE Quiet
  BY <1>1, CallsKeptStutter DEF Quiet, Ledger!ledgerVars
<1>2. ASSUME NEW q \in Requests, CleanUp(q)
      PROVE  [Ledger!LedgerNext]_(Ledger!ledgerVars)
  <2> DEFINE t == req[q].task
  <2>1. t \in Tasks /\ DeleteSession(t) /\ UNCHANGED <<placed, confirmed>>
    BY <1>2 DEF CleanUp, TInv, ReqOK
  <2>2. CASE session[t] = 0
    <3>1. session' = session
      BY <2>1, <2>2 DEF DeleteSession, TInv, StoreTypeOK
    <3> QED
      BY <2>1, <3>1 DEF DeleteSession, Ledger!ledgerVars
  <2>3. CASE session[t] # 0
    <3>1. Ledger!StrikeAttempt(t)
      BY <2>1, <2>3 DEF DeleteSession, Ledger!StrikeAttempt
    <3> QED
      BY <2>1, <3>1 DEF Ledger!LedgerNext
  <2> QED
    BY <2>2, <2>3
<1>3. ASSUME NEW e \in Executors, Create(e)
      PROVE  [Ledger!LedgerNext]_(Ledger!ledgerVars)
  <2> DEFINE t == exec[e].task
  <2>1. t \in Tasks /\ SessionFree(t) /\ CreateSession(t) /\ UNCHANGED <<placed, confirmed>>
    BY <1>3, ExecType DEF Create, TInv
  <2>2. Ledger!OpenAttempt(t)
    BY <2>1 DEF SessionFree, CreateSession, Ledger!OpenAttempt
  <2> QED
    BY <2>1, <2>2 DEF Ledger!LedgerNext
<1>4. ASSUME NEW e \in Executors, Dial(e) \/ DialRaises(e) \/ DialFails(e)
      PROVE  [Ledger!LedgerNext]_(Ledger!ledgerVars)
  <2>0. PICK t \in Tasks, c \in Calls : t = exec[e].task /\ c = CallOf(e)
    BY <1>4, TryEffect DEF TInv
  <2>1. /\ Dials(e, t, c[1]) /\ c[2] = exec[e].try /\ UNCHANGED <<session, issued>>
        /\ \A u \in Tasks, d \in Calls : ~(u = t /\ d = c) => call'[u][d] = call[u][d]
        /\ \/ UNCHANGED call
           \/ /\ call'[t][c].st # "none"
              /\ \/ call'[t][c].sid = TRUE
                 \/ call'[t][c].sid = FALSE /\ RepliesMayBeLost
    <3>1. /\ exec[e].pc = "dial" /\ c[1] = exec[e].attempt /\ c[2] = exec[e].try
          /\ UNCHANGED <<session, issued>> /\ Tried(t, c)
      BY <1>4, <2>0, TryEffect
    <3>2. \/ UNCHANGED call
          \/ Rings(t, c) /\ call'[t][c].sid = TRUE
          \/ Rings(t, c) /\ call'[t][c].sid = FALSE /\ RepliesMayBeLost
      BY <1>4, <2>0, TryEffect
    <3> QED
      BY <2>0, <3>1, <3>2 DEF Dials, Tried, Rings
  <2>2. CASE UNCHANGED call
    BY <2>1, <2>2 DEF Ledger!ledgerVars
  <2>3. CASE ~UNCHANGED call
    <3>1. c[1] \in Attempts /\ c[1] <= issued[t] /\ c \in Ledger!AllCalls
      BY <2>0, <2>1, CallNumbers DEF AttemptInv, Dials, Ledger!AllCalls, Calls
    <3>2. c[1] \in 1..issued[t]
      BY <3>1 DEF TInv, StoreTypeOK
    <3>3. ASSUME NEW d \in Calls, d[1] = c[1]
          PROVE  call[t][d].sid = FALSE /\ (call[t][d].st # "none" => d[2] < c[2])
      BY <2>0, <2>1, <3>3, CallNumbers DEF AttemptInv, Placed
    <3>4. placed' = [placed EXCEPT ![t] = @ \cup {c}]
      <4>1. \A u \in Tasks : placed'[u] = IF u = t THEN placed[u] \cup {c} ELSE placed[u]
        BY <2>0, <2>1, <2>3
      <4> QED
        BY <4>1
    <3>5. call'[t][c].sid = TRUE => confirmed' = [confirmed EXCEPT ![t] = @ \cup {c}]
      <4>1. ASSUME call'[t][c].sid = TRUE
            PROVE  \A u \in Tasks :
                     confirmed'[u] = IF u = t THEN confirmed[u] \cup {c} ELSE confirmed[u]
        BY <2>0, <2>1, <4>1
      <4> QED
        BY <4>1
    <3>6. call'[t][c].sid = FALSE => UNCHANGED confirmed
      <4>1. ASSUME call'[t][c].sid = FALSE
            PROVE  \A u \in Tasks : confirmed'[u] = confirmed[u]
        <5>1. \A u \in Tasks, d \in Calls : call'[u][d].sid <=> call[u][d].sid
          BY <2>0, <2>1, <3>3, <4>1
        <5> QED
          BY <5>1
      <4> QED
        BY <4>1
    <3>7. /\ \A d \in placed[t] : d[1] = c[1] => d[2] < c[2]
          /\ \A d \in confirmed[t] : d[1] # c[1]
      BY <3>3
    <3> HIDE DEF placed, confirmed
    <3>8. Ledger!PlaceCall(t, c)
      BY <2>1, <2>3, <3>2, <3>4, <3>5, <3>6, <3>7 DEF Ledger!PlaceCall, placed, confirmed
    <3> QED
      BY <3>1, <3>8 DEF Ledger!LedgerNext
  <2> QED
    BY <2>2, <2>3
<1> QED
  BY <1>1, <1>2, <1>3, <1>4, StepKinds

\* Whatever executions, retries, cleanups, callbacks, lost answers and crashes
\* do, the calls placed for a task follow the attempt ledger: one call_session
\* row at a time, and none more for it once calls.create has returned a call.
\* It rests on UNIQUE(task_id), on issued numbers and on the try loop's return;
\* the claim on the task row plays no part in it.
THEOREM CallsFollowLedger == Spec => ImplementsLedger
<1>1. LedgerInv /\ [Next]_vars => [Ledger!LedgerNext]_(Ledger!ledgerVars)
  BY StepLedger
<1> QED
  BY <1>1, InitLedgerInv, NextLedgerInv, InitLedger, PTL
  DEF Spec, ImplementsLedger, Ledger!LedgerSpec

-----------------------------------------------------------------------------
(* The claim *)

\* Nobody but an executor, a finalizer, a callback, the janitor, a cancel or an
\* automatic retry writes the status: transition_task, an edit and a manual
\* retry would write over a claim they have not seen; and Twilio's answers arrive:
\* a dial that fails although the callee rings ends with FAILED as well.
ClaimScope ==
  /\ RealtimeScope
  /\ ~RepliesMayBeLost
  /\ CreatedWith \subseteq {"none"}
  /\ Kinds \subseteq {"execute", "cancel"}

NoSchedules ==
  /\ \A t \in Tasks : task[t].status # "SCHEDULED"
  /\ worker.pc # "promote"

OnlyCancels ==
  \A q \in Requests : req[q].pc # "idle" => req[q].pc = "loaded" /\ req[q].kind = "cancel"

\* An execution or a call has the task.
Holds(e, t) == exec[e].task = t /\ exec[e].pc \in {"create", "dial"}

Busy(t) ==
  \/ \E e \in Executors : Holds(e, t)
  \/ \E a \in Calls : RealtimeInFlight(t, a)

OneHolder(t) ==
  /\ \A e, f \in Executors : Holds(e, t) /\ Holds(f, t) => e = f
  /\ \A e \in Executors, a \in Calls : ~(Holds(e, t) /\ RealtimeInFlight(t, a))
  /\ \A a, b \in Calls : RealtimeInFlight(t, a) /\ RealtimeInFlight(t, b) => a = b

\* The worker is going to write this task's status because of what it once read.
Chosen(t) ==
  \/ worker.pc \in {"retryList", "retryRun", "mark", "sweep"} /\ t \in worker.list
  \/ worker.pc = "mark" /\ t = worker.task

\* The worker would choose neither for a retry nor for the janitor.
Unattractive(t) ==
  /\ task[t].updated_at = "fresh"
  /\ ~(task[t].status = "FAILED" /\ task[t].error_reason \in RetryableErrors)

Guarded(t) ==
  /\ OneHolder(t)
  /\ Busy(t) => ~Claimable(t) /\ Unattractive(t) /\ ~Chosen(t)
  /\ Chosen(t) => ~Claimable(t)

ClaimInv ==
  TInv /\ RealtimeOnly /\ OnceInList /\ NoSchedules /\ OnlyCancels /\ \A t \in Tasks : Guarded(t)

\* Most steps begin nothing, reopen nothing, and make no task the worker's prey
\* that is still held.
Fewer(t) ==
  /\ \A e \in Executors : Holds(e, t)' => Holds(e, t)
  /\ \A a \in Calls : RealtimeInFlight(t, a)' => RealtimeInFlight(t, a)

Harmless(t) ==
  /\ Fewer(t)
  /\ Claimable(t)' => Claimable(t)
  /\ Busy(t)' /\ Unattractive(t) => Unattractive(t)'

LEMMA FewerKeep ==
  ASSUME NEW t \in Tasks, Fewer(t)
  PROVE  /\ OneHolder(t) => OneHolder(t)'
         /\ Busy(t)' => Busy(t)
  BY DEF Fewer, OneHolder, Busy

LEMMA HarmlessKeeps ==
  ASSUME NEW t \in Tasks, Harmless(t), Guarded(t), Chosen(t)' => Chosen(t)
  PROVE  Guarded(t)'
  BY FewerKeep DEF Harmless, Guarded

\* A row that is not written, and a task nobody new takes up.
LEMMA RowKept ==
  ASSUME NEW t \in Tasks, Fewer(t), task'[t] = task[t]
  PROVE  Harmless(t)
  BY DEF Harmless, Claimable, Unattractive

LEMMA ExecutorGuards ==
  ASSUME ClaimScope, ClaimInv, NEW e \in Executors, Executor(e), NEW t \in Tasks
  PROVE  Guarded(t)'
<1> USE DEF ClaimInv
<1>0. ExecStep(e) /\ worker' = worker
  BY DEF Executor
<1>a. /\ \A f \in Executors \ {e} : exec'[f] = exec[f]
      /\ exec'[e].pc = "idle" \/ exec'[e].task = exec[e].task
  BY <1>0, Moves
<1>b. Guarded(t) /\ (Chosen(t)' <=> Chosen(t))
  BY <1>0 DEF Chosen
<1>c. ASSUME UNCHANGED call, Holds(e, t)' => Holds(e, t)
      PROVE  Fewer(t)
  BY <1>a, <1>c DEF Fewer, Holds, RealtimeInFlight
<1>d. ASSUME UNCHANGED call, Holds(e, t)' => Holds(e, t), task'[t] = task[t]
      PROVE  Guarded(t)'
  BY <1>b, <1>c, <1>d, RowKept, HarmlessKeeps
<1>t. task \in [Tasks -> Row] /\ exec \in [Executors -> ExecRec] /\ exec[e] \in ExecRec
  BY DEF TInv, StoreTypeOK, ExecOK, ExecTypeOK
<1>1. CASE Acquire(e)
  BY <1>1, <1>d, <1>t DEF Acquire, Advance, ExecRec, Holds, storeVars
<1>2. CASE Load(e)
  <2>1. exec'[e].pc \in {"claim", "seize", "idle", "overrule"}
    BY <1>2, <1>t DEF Load, Refused, Advance, Finish, Idle, ExecRec
  <2> QED
    BY <1>2, <1>d, <2>1 DEF Load, Holds, storeVars
<1>3. CASE Claim(e)
  <2>1. CASE Claimable(t) /\ t = exec[e].task
    <3>1. ~Busy(t) /\ ~Chosen(t)
      BY <1>b, <2>1 DEF Guarded
    <3>2. task'[t] = [task[t] EXCEPT !.status = "IN_PROGRESS", !.updated_at = "fresh"]
      BY <1>3, <1>t, <2>1 DEF Claim, claim_for_execution
    <3>3. ~Claimable(t)' /\ Unattractive(t)'
      BY <3>2, <1>t DEF Claimable, OpenStatus, Unattractive, Row
    <3>4. \A a \in Calls : ~RealtimeInFlight(t, a)'
      BY <1>3, <3>1 DEF Claim, Busy, RealtimeInFlight
    <3>5. \A f \in Executors \ {e} : ~Holds(f, t)'
      BY <1>a, <3>1 DEF Busy, Holds
    <3>6. OneHolder(t)'
      BY <3>4, <3>5 DEF OneHolder
    <3> QED
      BY <1>b, <3>1, <3>3, <3>6 DEF Guarded
  <2>2. CASE Claimable(exec[e].task) /\ t # exec[e].task
    <3>1. task'[t] = task[t] /\ UNCHANGED call
      BY <1>3, <1>t, <2>2 DEF Claim, claim_for_execution
    <3>2. ~Holds(e, t)'
      BY <1>a, <2>2 DEF Holds
    <3> QED
      BY <1>d, <3>1, <3>2
  <2>3. CASE ~Claimable(exec[e].task)
    <3>1. task' = task /\ UNCHANGED call /\ Refused(e, "IN_PROGRESS")
      BY <1>3, <2>3 DEF Claim, claim_for_execution
    <3>2. exec'[e].pc \in {"idle", "overrule"}
      BY <1>t, <3>1 DEF Refused, Advance, Finish, Idle, ExecRec
    <3> QED
      BY <1>d, <3>1, <3>2 DEF Holds
  <2> QED
    BY <2>1, <2>2, <2>3
<1>4. CASE Create(e)
  <2>1. Holds(e, t)' => Holds(e, t)
    BY <1>4, <1>a, <1>t DEF Create, Holds, ExecRec
  <2> QED
    BY <1>4, <1>d, <2>1 DEF Create
<1>5. CASE CreateFails(e)
  BY <1>5, <1>d, <1>t DEF CreateFails, Finish, Idle, Holds, storeVars
<1>6. CASE Dial(e)
  <2> DEFINE a == CallOf(e)  u == exec[e].task
  <2>0. /\ u \in Tasks /\ a \in Calls
        /\ call' = [call EXCEPT ![u][a].st = "ringing", ![u][a].cb = "none", ![u][a].sid = TRUE]
        /\ Finish(e) /\ task' = task
    BY <1>6, ExecType DEF Dial, Place, RealtimeOnly, TInv, storeVars
  <2>a. \A v \in Tasks, b \in Calls : ~(v = u /\ b = a) => call'[v][b] = call[v][b]
    BY <2>0 DEF TInv, TeleTypeOK
  <2>1. exec'[e].pc = "idle"
    BY <1>t, <2>0 DEF Finish, Idle
  <2>2. CASE t = exec[e].task
    <3>1. Holds(e, t)
      BY <1>6, <2>2 DEF Dial, Holds
    <3>2. \A f \in Executors : ~Holds(f, t)'
      BY <1>a, <1>b, <2>1, <3>1 DEF Guarded, OneHolder, Holds
    <3>3. \A b \in Calls \ {a} : ~RealtimeInFlight(t, b)'
      <4>1. \A b \in Calls \ {a} : call'[t][b] = call[t][b]
        BY <2>a
      <4> QED
        BY <1>b, <3>1, <4>1 DEF Guarded, OneHolder, RealtimeInFlight
    <3>4. OneHolder(t)'
      BY <3>2, <3>3 DEF OneHolder
    <3>5. Busy(t)
      BY <3>1 DEF Busy
    <3> QED
      BY <1>b, <2>0, <3>4, <3>5 DEF Guarded, Claimable, Unattractive
  <2>3. CASE t # exec[e].task
    <3>1. \A b \in Calls : call'[t][b] = call[t][b]
      BY <2>a, <2>3
    <3>2. Fewer(t)
      BY <1>a, <2>1, <3>1 DEF Fewer, Holds, RealtimeInFlight
    <3> QED
      BY <1>b, <2>0, <3>2, RowKept, HarmlessKeeps
  <2> QED
    BY <2>2, <2>3
<1>7. CASE DialFails(e)
  <2>1. PICK reason : SetFailed(exec[e].task, reason) /\ Finish(e) /\ call' = call
    BY <1>7 DEF DialFails, TryRaises, RealtimeOnly, ClaimScope
  <2>2. exec'[e].pc = "idle"
    BY <1>t, <2>1 DEF Finish, Idle
  <2>3. CASE t = exec[e].task
    <3>1. Holds(e, t)
      BY <1>7, <2>3 DEF DialFails, Holds
    <3>2. \A f \in Executors : ~Holds(f, t)'
      BY <1>a, <1>b, <2>2, <3>1 DEF Guarded, OneHolder, Holds
    <3>3. \A a \in Calls : ~RealtimeInFlight(t, a)'
      BY <1>b, <2>1, <3>1 DEF Guarded, OneHolder, RealtimeInFlight
    <3>4. task'[t].status = "FAILED"
      BY <1>t, <2>1, <2>3 DEF SetFailed, Row
    <3>5. ~Claimable(t)'
      BY <3>4 DEF Claimable, OpenStatus
    <3> QED
      BY <3>2, <3>3, <3>5 DEF Guarded, OneHolder, Busy
  <2>4. CASE t # exec[e].task
    BY <1>t, <1>d, <2>1, <2>2, <2>4 DEF SetFailed, Holds
  <2> QED
    BY <2>3, <2>4
<1>8. CASE Overrule(e)
  <2>1. Finish(e) /\ call' = call /\ SetFailed(exec[e].task, "plain")
    BY <1>8 DEF Overrule
  <2>2. Fewer(t)
    BY <1>c, <1>t, <2>1 DEF Finish, Idle, Holds
  <2>3. task'[t] = task[t]
        \/ /\ task'[t].status = "FAILED" /\ task'[t].error_reason = "plain"
           /\ task'[t].updated_at = task[t].updated_at
    BY <1>t, <2>1 DEF SetFailed, Row
  <2>4. Harmless(t)
    BY <2>2, <2>3, RowKept DEF Harmless, Claimable, OpenStatus, Unattractive, RetryableErrors
  <2> QED
    BY <1>b, <2>4, HarmlessKeeps
<1>9. CASE DialRaises(e)
  <2>1. task' = task /\ call' = call
    BY <1>9 DEF DialRaises, TryRaises, ClaimScope, storeVars
  <2>2. Holds(e, t)' => Holds(e, t)
    BY <1>9, <1>t DEF DialRaises, Holds, ExecRec
  <2> QED
    BY <1>d, <2>1, <2>2
<1> QED
  BY <1>0, <1>1, <1>2, <1>3, <1>4, <1>5, <1>6, <1>7, <1>8, <1>9
  DEF ExecStep, Seize, TalkFails, TalkEnds, StoreResult, RealtimeOnly

\* Executors stay where they are, and calls only end.
LEMMA OthersFewer ==
  ASSUME NEW t \in Tasks,
         \A e \in Executors : exec'[e] = exec[e] \/ exec'[e].pc \in {"idle", "queued", "load"},
         \A a \in Calls : RealtimeInFlight(t, a)' => RealtimeInFlight(t, a)
  PROVE  Fewer(t)
  BY DEF Fewer, Holds

LEMMA CallGuards ==
  ASSUME ClaimInv, NEW u \in Tasks, NEW a \in Calls, Telephone(u, a) \/ Callback(u, a),
         NEW t \in Tasks
  PROVE  Guarded(t)'
<1> USE DEF ClaimInv
<1>0. exec' = exec /\ worker' = worker /\ (CallStep(u, a) \/ CallbackStep(u, a))
  BY DEF Telephone, Callback
<1>t. task \in [Tasks -> Row] /\ TeleTypeOK
  BY DEF TInv, StoreTypeOK
<1>1. Fewer(t) /\ Guarded(t) /\ (Chosen(t)' <=> Chosen(t))
  BY <1>0, CallsEnd, OthersFewer DEF Chosen
<1>2. CASE FinalizeStore(u, a)
  <2>1. PICK o, err : o \in Outcomes /\ task' = [task EXCEPT
          ![u].status = Dirty(StatusOf(o), call[u][a].status, @), ![u].error_reason = err]
    BY <1>2 DEF FinalizeStore
  <2>2. CASE t = u
    <3>1. RealtimeInFlight(t, a) /\ ~RealtimeInFlight(t, a)'
      BY <1>2, <1>t, <2>2 DEF FinalizeStore, RealtimeInFlight, TeleTypeOK
    <3>2. ~Busy(t)' /\ Busy(t)
      BY <1>1, <3>1 DEF Guarded, OneHolder, Fewer, Busy
    <3>3. task'[t].status = Dirty(StatusOf(o), call[u][a].status, task[t].status)
      BY <1>t, <2>1, <2>2 DEF Row
    <3>4. Claimable(t)' => Claimable(t)
      BY <3>3 DEF Dirty, StatusOf, Claimable, OpenStatus
    <3>5. Harmless(t)
      BY <1>1, <3>2, <3>4 DEF Harmless
    <3> QED
      BY <1>1, <3>5, HarmlessKeeps
  <2>3. CASE t # u
    <3>1. task'[t] = task[t]
      BY <1>t, <2>1, <2>3
    <3> QED
      BY <1>1, <3>1, RowKept, HarmlessKeeps
  <2> QED
    BY <2>2, <2>3
<1>3. CASE CallbackStore(u, a)
  <2>1. task'[t] = task[t]
        \/ /\ task'[t].status = "FAILED" /\ task'[t].error_reason = "plain"
           /\ task'[t].updated_at = task[t].updated_at
    BY <1>3, <1>t DEF CallbackStore, SetFailed, Row
  <2>2. Harmless(t)
    BY <1>1, <2>1, RowKept DEF Harmless, Claimable, OpenStatus, Unattractive, RetryableErrors
  <2> QED
    BY <1>1, <2>2, HarmlessKeeps
<1>4. CASE UNCHANGED task
  BY <1>1, <1>4, RowKept, HarmlessKeeps
<1> QED
  BY <1>0, <1>2, <1>3, <1>4 DEF CallStep, CallbackStep, Answer, StreamRejected, RingOut,
     BridgeEnds, StrayEnds, FinalizeLoad, FinalizeSave, CallbackLoad, EndedCallback, storeVars

\* Of the requests only a cancel commits anything, and only FAILED.
LEMMA ApiGuards ==
  ASSUME ClaimScope, ClaimInv, User \/ \E q \in Requests : Request(q)
  PROVE  OnlyCancels' /\ \A t \in Tasks : Guarded(t)'
<1> USE DEF ClaimInv
<1>t. task \in [Tasks -> Row] /\ req \in [Requests -> ReqRec]
  BY DEF TInv, StoreTypeOK, ReqOK, ApiTypeOK
<1>w. UNCHANGED worker
  BY DEF User, Request
<1>a. ASSUME NEW t \in Tasks, UNCHANGED call,
             \A e \in Executors : exec'[e] = exec[e] \/ exec'[e].pc = "queued"
      PROVE  Fewer(t) /\ Guarded(t) /\ (Chosen(t)' <=> Chosen(t))
  BY <1>a, <1>w, OthersFewer DEF RealtimeInFlight, Chosen
<1>1. ASSUME NEW u \in Tasks, Execute(u)
      PROVE  OnlyCancels' /\ \A t \in Tasks : Guarded(t)'
  <2>1. UNCHANGED <<task, call, req>>
        /\ \A e \in Executors : exec'[e] = exec[e] \/ exec'[e].pc = "queued"
    BY <1>1, Begins DEF Execute, storeVars
  <2> QED
    BY <1>a, <2>1, RowKept, HarmlessKeeps DEF OnlyCancels
<1>2. ASSUME NEW q \in Requests, NEW kind \in RequestKinds, NEW u \in Tasks,
             LoadForRequest(q, kind, u)
      PROVE  OnlyCancels' /\ \A t \in Tasks : Guarded(t)'
  <2>1. UNCHANGED <<task, call, exec>> /\ kind = "cancel"
    BY <1>2 DEF LoadForRequest, storeVars, ClaimScope
  <2>2. OnlyCancels'
    BY <1>2, <1>t, <2>1 DEF LoadForRequest, OnlyCancels
  <2> QED
    BY <1>a, <2>1, <2>2, RowKept, HarmlessKeeps
<1>3. ASSUME NEW q \in Requests, RequestStep(q)
      PROVE  OnlyCancels' /\ \A t \in Tasks : Guarded(t)'
  <2>1. Cancel(q)
    BY <1>3 DEF RequestStep, Reschedule, Unschedule, CleanUp, Reopen, OnlyCancels
  <2>2. OnlyCancels'
    BY <1>t, <2>1 DEF Cancel, Reply, NoReq, OnlyCancels
  <2>3. ASSUME NEW t \in Tasks
        PROVE  Guarded(t)'
    <3>1. Fewer(t) /\ Guarded(t) /\ (Chosen(t)' <=> Chosen(t))
      BY <1>a, <2>1 DEF Cancel
    <3>2. task'[t] = task[t]
          \/ /\ task'[t].status = "FAILED" /\ task'[t].error_reason = "cancelled"
             /\ task'[t].updated_at = task[t].updated_at
      BY <1>t, <2>1 DEF Cancel, SetFailed, Row
    <3>3. Harmless(t)
      BY <3>1, <3>2, RowKept DEF Harmless, Claimable, OpenStatus, Unattractive, RetryableErrors
    <3> QED
      BY <3>1, <3>3, HarmlessKeeps
  <2> QED
    BY <2>2, <2>3
<1> QED
  BY <1>1, <1>2, <1>3 DEF User, UserStep, Request

\* A task that is held does not grow old.
LEMMA ClockGuards ==
  ASSUME ClaimInv, NEW u \in Tasks, ClockStep(u), NEW t \in Tasks
  PROVE  Guarded(t)'
<1> USE DEF ClaimInv
<1>t. task \in [Tasks -> Row]
  BY DEF TInv, StoreTypeOK
<1>1. Guarded(t) /\ (Chosen(t)' <=> Chosen(t)) /\ Fewer(t)
  BY OthersFewer DEF ClockStep, Chosen, RealtimeInFlight
<1>2. task'[t].status = task[t].status /\ task'[t].error_reason = task[t].error_reason
  BY <1>t DEF ClockStep, ScheduleComesDue, RetryWindowElapses, Age, UpdatedAtAges, Row
<1>3. CASE task'[t].updated_at = task[t].updated_at
  <2>1. Harmless(t)
    BY <1>1, <1>2, <1>3 DEF Harmless, Claimable, Unattractive
  <2> QED
    BY <1>1, <2>1, HarmlessKeeps
<1>4. CASE task'[t].updated_at # task[t].updated_at
  <2>1. Age(u) /\ t = u
    BY <1>t, <1>4 DEF ClockStep, ScheduleComesDue, RetryWindowElapses, Age, UpdatedAtAges, Row
  <2>2. ~Busy(t)
    BY <2>1 DEF Age, UnderWay, Busy, Holds
  <2>3. Harmless(t)
    BY <1>1, <1>2, <2>2, FewerKeep DEF Harmless, Claimable
  <2> QED
    BY <1>1, <2>3, HarmlessKeeps
<1> QED
  BY <1>3, <1>4

LEMMA CrashGuards ==
  ASSUME ClaimInv, ApiCrash \/ WorkerCrash
  PROVE  OnlyCancels' /\ \A t \in Tasks : Guarded(t)'
<1> USE DEF ClaimInv
<1>1. task' = task
  BY DEF ApiCrash, WorkerCrash, storeVars
<1>2. \A e \in Executors : exec'[e] = exec[e] \/ exec'[e].pc = "idle"
  BY DEF ApiCrash, WorkerCrash, Idle, TInv, ExecOK, ExecTypeOK
<1>3. \A t \in Tasks, a \in Calls : RealtimeInFlight(t, a)' => RealtimeInFlight(t, a)
  BY CrashedCalls DEF RealtimeInFlight
<1>4. OnlyCancels'
  BY DEF ApiCrash, WorkerCrash, NoReq, apiVars, OnlyCancels
<1>5. \A t \in Tasks : Chosen(t)' => Chosen(t)
  BY DEF ApiCrash, WorkerCrash, NewTick, Chosen
<1>6. \A t \in Tasks : Fewer(t)
  BY <1>2, <1>3, OthersFewer
<1> QED
  BY <1>1, <1>4, <1>5, <1>6, RowKept, HarmlessKeeps

LEMMA PollGuards ==
  ASSUME ClaimInv, Poll, NEW t \in Tasks
  PROVE  Guarded(t)'
<1> USE DEF ClaimInv
<1>t. task \in [Tasks -> Row]
  BY DEF TInv, StoreTypeOK
<1>0. SchedulerStep
  BY DEF Poll
<1>1. call' = call /\ (exec' = exec \/ \E u : StartWorker(u))
  BY <1>0 DEF SchedulerStep, GetDueTasks, TakeDue, Promote, ScheduleRetryWindows,
     GetRetryableFailedTasks, TakeRetryable, MarkForRetry, ExecutionReturns, FindStuck, FailStuck
<1>2. Fewer(t) /\ Guarded(t)
  BY <1>1, Begins, OthersFewer DEF RealtimeInFlight
<1>3. CASE task'[t] = task[t] /\ (Chosen(t)' => Chosen(t))
  BY <1>2, <1>3, RowKept, HarmlessKeeps
<1>4. CASE GetDueTasks \/ TakeDue \/ ExecutionReturns
  <2>1. task' = task
    BY <1>4 DEF GetDueTasks, TakeDue, ExecutionReturns, storeVars
  <2>2. Chosen(t)' => Chosen(t)
    BY <1>4 DEF GetDueTasks, TakeDue, ExecutionReturns, Now, Chosen
  <2> QED
    BY <1>3, <2>1, <2>2
<1>5. CASE TakeRetryable
  <2>1. task' = task
    BY <1>5 DEF TakeRetryable, storeVars
  <2>2. Chosen(t)' => Chosen(t)
    BY <1>5 DEF TakeRetryable, Now, Chosen
  <2> QED
    BY <1>3, <2>1, <2>2
<1>6. CASE ScheduleRetryWindows
  <2>1. /\ task'[t].status = task[t].status
        /\ task'[t].error_reason = task[t].error_reason
        /\ task'[t].updated_at = task[t].updated_at
    BY <1>6, <1>t DEF ScheduleRetryWindows, Row
  <2>2. ~Chosen(t)'
    BY <1>6 DEF ScheduleRetryWindows, Now, Chosen
  <2>3. Harmless(t)
    BY <1>2, <2>1 DEF Harmless, Claimable, Unattractive
  <2> QED
    BY <1>2, <2>2, <2>3, HarmlessKeeps
<1>7. CASE GetRetryableFailedTasks
  <2>1. task' = task
    BY <1>7 DEF GetRetryableFailedTasks, storeVars
  <2>2. Chosen(t)' => Retryable(t)
    BY <1>7 DEF GetRetryableFailedTasks, Now, Chosen
  <2>3. Retryable(t) => ~Busy(t) /\ ~Claimable(t)
    BY <1>2 DEF Guarded, Retryable, Unattractive, Claimable, OpenStatus
  <2> QED
    BY <1>2, <2>1, <2>2, <2>3, FewerKeep DEF Guarded, Claimable, Unattractive
<1>8. CASE FindStuck
  <2>1. task' = task
    BY <1>8 DEF FindStuck, storeVars
  <2>2. Chosen(t)' => Stuck(t)
    BY <1>8 DEF FindStuck, NewTick, Chosen
  <2>3. Stuck(t) => ~Busy(t) /\ ~Claimable(t)
    BY <1>2 DEF Guarded, Stuck, Unattractive, Claimable, OpenStatus
  <2> QED
    BY <1>2, <2>1, <2>2, <2>3, FewerKeep DEF Guarded, Claimable, Unattractive
<1>9. CASE MarkForRetry
  <2> DEFINE u == worker.task
  <2>1. /\ worker'.pc = "retryRun" /\ worker'.list = worker.list
        /\ worker.pc = "mark" /\ u \notin worker.list
    BY <1>9 DEF MarkForRetry, Now, OnceInList
  <2>2. CASE t = u
    <3>1. Chosen(t) /\ ~Chosen(t)'
      BY <2>1, <2>2 DEF Chosen
    <3>2. ~Busy(t)'
      BY <1>2, <3>1, FewerKeep DEF Guarded
    <3> QED
      BY <1>2, <3>1, <3>2, FewerKeep DEF Guarded
  <2>3. CASE t # u
    <3>1. task'[t] = task[t]
      BY <1>9, <1>t, <2>3 DEF MarkForRetry
    <3>2. Chosen(t)' => Chosen(t)
      BY <2>1 DEF Chosen
    <3> QED
      BY <1>3, <3>1, <3>2
  <2> QED
    BY <2>2, <2>3
<1>10. CASE FailStuck
  <2>1. ~Chosen(t)'
    BY <1>10 DEF FailStuck, NewTick, Chosen
  <2>2. CASE t \in worker.list
    <3>1. ~Busy(t)'
      BY <1>2, <1>10, <2>2, FewerKeep DEF FailStuck, Chosen, Guarded
    <3> QED
      BY <1>2, <2>1, <3>1, FewerKeep DEF Guarded
  <2>3. CASE t \notin worker.list
    BY <1>3, <1>10, <2>1, <2>3 DEF FailStuck
  <2> QED
    BY <2>2, <2>3
<1> QED
  BY <1>0, <1>4, <1>5, <1>6, <1>7, <1>8, <1>9, <1>10 DEF SchedulerStep, Promote, NoSchedules

LEMMA NextNoSchedules ==
  ASSUME ClaimScope, ClaimInv, [Next]_vars
  PROVE  NoSchedules'
<1> USE DEF ClaimInv, NoSchedules
<1>t. task \in [Tasks -> Row]
  BY DEF TInv, StoreTypeOK
<1>a. ASSUME NEW u, NEW s, SetStatus(u, s), s # "SCHEDULED", NEW t \in Tasks
      PROVE  task'[t].status # "SCHEDULED"
  BY <1>t, <1>a DEF SetStatus, Row
<1>b. ASSUME NEW u, NEW reason, SetFailed(u, reason), NEW t \in Tasks
      PROVE  task'[t].status # "SCHEDULED"
  BY <1>t, <1>b DEF SetFailed, Row
<1>1. ASSUME NEW u \in Tasks, ClockStep(u)
      PROVE  NoSchedules'
  BY <1>1, <1>t DEF ClockStep, ScheduleComesDue, RetryWindowElapses, Age, UpdatedAtAges, Row
<1>2. ASSUME NEW u \in Tasks, NEW a \in Calls, Telephone(u, a) \/ Callback(u, a)
      PROVE  NoSchedules'
  <2>0. worker' = worker /\ (CallStep(u, a) \/ CallbackStep(u, a))
    BY <1>2 DEF Telephone, Callback
  <2>1. CASE FinalizeStore(u, a)
    <3>1. PICK o, err : o \in Outcomes /\ task' = [task EXCEPT
            ![u].status = Dirty(StatusOf(o), call[u][a].status, @), ![u].error_reason = err]
      BY <2>1 DEF FinalizeStore
    <3>2. Dirty(StatusOf(o), call[u][a].status, task[u].status) # "SCHEDULED"
      BY DEF Dirty, StatusOf
    <3>3. \A t \in Tasks : task'[t].status # "SCHEDULED"
      BY <1>t, <3>1, <3>2 DEF Row
    <3> QED
      BY <2>0, <3>3
  <2>2. CASE CallbackStore(u, a)
    BY <1>b, <2>0, <2>2 DEF CallbackStore
  <2>3. CASE UNCHANGED task
    BY <2>0, <2>3
  <2> QED
    BY <2>0, <2>1, <2>2, <2>3 DEF CallStep, CallbackStep, Answer, StreamRejected, RingOut,
       BridgeEnds, StrayEnds, FinalizeLoad, FinalizeSave, CallbackLoad, EndedCallback, storeVars
<1>3. ASSUME NEW e \in Executors, Executor(e)
      PROVE  NoSchedules'
  <2>0. worker' = worker /\ ExecStep(e)
    BY <1>3 DEF Executor
  <2>1. CASE Claim(e)
    BY <1>t, <2>0, <2>1 DEF Claim, claim_for_execution, Row
  <2>2. CASE DialFails(e)
    <3>1. PICK reason : SetFailed(exec[e].task, reason)
      BY <2>2 DEF DialFails, RealtimeOnly
    <3> QED
      BY <1>b, <2>0, <3>1
  <2>3. CASE Overrule(e)
    BY <1>b, <2>0, <2>3 DEF Overrule
  <2>4. CASE UNCHANGED task
    BY <2>0, <2>4
  <2> QED
    BY <2>0, <2>1, <2>2, <2>3, <2>4 DEF ExecStep, Acquire, Load, Seize, Create, CreateFails,
       Dial, DialRaises, TalkFails, TalkEnds, StoreResult, RealtimeOnly, storeVars
<1>4. CASE User
  BY <1>4 DEF User, UserStep, LoadForRequest, Execute, storeVars
<1>5. ASSUME NEW q \in Requests, Request(q)
      PROVE  NoSchedules'
  <2>1. Cancel(q) /\ worker' = worker
    BY <1>5 DEF Request, RequestStep, Reschedule, Unschedule, CleanUp, Reopen, OnlyCancels
  <2> QED
    BY <1>b, <2>1 DEF Cancel
<1>6. CASE Poll
  <2>0. SchedulerStep
    BY <1>6 DEF Poll
  <2>1. CASE MarkForRetry
    BY <1>t, <2>1 DEF MarkForRetry, Now, Row
  <2>2. CASE ScheduleRetryWindows
    BY <1>t, <2>2 DEF ScheduleRetryWindows, Now, Row
  <2>3. CASE FailStuck
    <3>1. ASSUME NEW t \in Tasks
          PROVE  task'[t].status # "SCHEDULED"
      <4>1. CASE t \in worker.list
        <5>1. task'[t] = [task[t] EXCEPT !.status = "FAILED",
                !.error_reason = IF t \in worker.blank THEN "network" ELSE @]
          BY <2>3, <4>1 DEF FailStuck
        <5> QED
          BY <1>t, <5>1 DEF Row
      <4>2. CASE t \notin worker.list
        BY <2>3, <4>2 DEF FailStuck
      <4> QED
        BY <4>1, <4>2
    <3> QED
      BY <2>3, <3>1 DEF FailStuck, NewTick
  <2>4. CASE TakeDue
    BY <2>4, NowUpdate DEF TakeDue, Now, storeVars, TInv, WorkerOK, SchedTypeOK, WorkerRec
  <2>5. CASE GetDueTasks \/ GetRetryableFailedTasks \/ TakeRetryable \/ ExecutionReturns
             \/ FindStuck
    BY <2>5 DEF GetDueTasks, GetRetryableFailedTasks, TakeRetryable, ExecutionReturns, FindStuck,
       Now, NewTick, storeVars
  <2> QED
    BY <2>0, <2>1, <2>2, <2>3, <2>4, <2>5 DEF SchedulerStep, Promote
<1>7. CASE ApiCrash \/ WorkerCrash
  BY <1>7 DEF ApiCrash, WorkerCrash, NewTick, storeVars
<1>8. CASE UNCHANGED vars
  BY <1>8 DEF vars, storeVars, schedVars
<1> QED
  BY <1>1, <1>2, <1>3, <1>4, <1>5, <1>6, <1>7, <1>8 DEF Next

LEMMA PollOnce ==
  ASSUME TInv, OnceInList, Poll
  PROVE  OnceInList'
<1>0. SchedulerStep
  BY DEF Poll
<1>1. CASE TakeRetryable
  BY <1>1 DEF TakeRetryable, Now, OnceInList
<1>2. CASE ~TakeRetryable
  <2>1. CASE FindStuck \/ FailStuck
    <3>1. worker'.pc \in {"due", "sweep"}
      <4>1. \/ worker' = NewTick
            \/ \E list, blank :
                 worker' = [pc |-> "sweep", list |-> list, task |-> None, blank |-> blank]
        BY <2>1 DEF FindStuck, FailStuck
      <4> QED
        BY <4>1 DEF NewTick
    <3> QED
      BY <3>1 DEF OnceInList
  <2>2. CASE GetDueTasks \/ TakeDue \/ Promote \/ ScheduleRetryWindows
    BY <2>2 DEF GetDueTasks, TakeDue, Promote, ScheduleRetryWindows, Now, OnceInList
  <2>3. CASE GetRetryableFailedTasks \/ MarkForRetry \/ ExecutionReturns
    BY <2>3 DEF GetRetryableFailedTasks, MarkForRetry, ExecutionReturns, Now, OnceInList
  <2> QED
    BY <1>0, <1>2, <2>1, <2>2, <2>3 DEF SchedulerStep
<1> QED
  BY <1>1, <1>2

LEMMA NextClaimInv == ClaimScope /\ ClaimInv /\ [Next]_vars => ClaimInv'
<1> SUFFICES ASSUME ClaimScope, ClaimInv, [Next]_vars
             PROVE  OnceInList' /\ OnlyCancels' /\ \A t \in Tasks : Guarded(t)'
  BY NextTInv, NextRealtimeOnly, NextNoSchedules DEF ClaimInv, ClaimScope
<1>1. ASSUME UNCHANGED req
      PROVE  OnlyCancels'
  BY <1>1 DEF OnlyCancels, ClaimInv
<1>2. OnceInList'
  <2>1. CASE Poll
    BY <2>1, PollOnce DEF ClaimInv
  <2>2. CASE WorkerCrash
    BY <2>2 DEF WorkerCrash, NewTick, OnceInList
  <2>3. CASE UNCHANGED worker
    BY <2>3 DEF OnceInList, ClaimInv
  <2> QED
    BY <2>1, <2>2, <2>3 DEF Next, ClockStep, Telephone, Callback, Executor, Request, User,
       ApiCrash, vars, schedVars
<1>3. ASSUME NEW t \in Tasks, ClockStep(t)
      PROVE  UNCHANGED req /\ \A u \in Tasks : Guarded(u)'
  BY <1>3, ClockGuards DEF ClockStep, apiVars
<1>4. ASSUME NEW t \in Tasks, NEW a \in Calls, Telephone(t, a) \/ Callback(t, a)
      PROVE  UNCHANGED req /\ \A u \in Tasks : Guarded(u)'
  BY <1>4, CallGuards DEF Telephone, Callback, apiVars
<1>5. ASSUME NEW e \in Executors, Executor(e)
      PROVE  UNCHANGED req /\ \A u \in Tasks : Guarded(u)'
  BY <1>5, ExecutorGuards DEF Executor, apiVars
<1>6. CASE User \/ \E q \in Requests : Request(q)
  BY <1>2, <1>6, ApiGuards
<1>7. CASE Poll
  <2>1. UNCHANGED req
    BY <1>7 DEF Poll, apiVars
  <2>2. \A u \in Tasks : Guarded(u)'
    BY <1>7, PollGuards
  <2> QED
    BY <1>1, <1>2, <2>1, <2>2
<1>8. CASE ApiCrash \/ WorkerCrash
  BY <1>2, <1>8, CrashGuards
<1>9. CASE UNCHANGED vars
  <2>1. UNCHANGED <<task, call, exec, req, worker>>
    BY <1>9 DEF vars, storeVars, teleVars, apiVars, schedVars
  <2>2. ASSUME NEW t \in Tasks
        PROVE  Guarded(t)'
    BY <2>1, RowKept, HarmlessKeeps, OthersFewer DEF RealtimeInFlight, Chosen, ClaimInv
  <2> QED
    BY <1>1, <1>2, <2>1, <2>2
<1> QED
  BY <1>1, <1>2, <1>3, <1>4, <1>5, <1>6, <1>7, <1>8, <1>9 DEF Next

LEMMA InitClaimInv == ClaimScope /\ Init => ClaimInv
<1> SUFFICES ASSUME ClaimScope, Init
             PROVE  NoSchedules /\ OnceInList /\ OnlyCancels /\ \A t \in Tasks : Guarded(t)
  BY InitTInv, InitRealtimeOnly DEF ClaimInv
<1>1. \A t \in Tasks : task[t].status = "PENDING"
  BY DEF Init, StoreInit, NewRow, ClaimScope
<1>2. \A e \in Executors : exec[e].pc = "idle"
  BY DEF Init, ExecInit, Idle
<1>3. \A t \in Tasks, a \in Calls : ~RealtimeInFlight(t, a)
  BY DEF Init, TeleInit, NoCall, RealtimeInFlight
<1>4. worker.pc = "due"
  BY DEF Init, SchedInit, NewTick
<1>5. \A q \in Requests : req[q].pc = "idle"
  BY DEF Init, ApiInit, NoReq
<1>6. \A t \in Tasks : ~Busy(t) /\ ~Chosen(t) /\ OneHolder(t)
  BY <1>2, <1>3, <1>4 DEF Busy, Holds, Chosen, OneHolder
<1> QED
  BY <1>1, <1>4, <1>5, <1>6 DEF NoSchedules, OnceInList, OnlyCancels, Guarded

\* claim_for_execution lets one execution through at a time (tasks/repository.py):
\* as long as nobody else writes the status of a claimed task back, two clicks,
\* the worker's retries, cancels, late callbacks, the janitor and both
\* processes' restarts never bring two executors between claim and dial.
THEOREM ClaimsExclude ==
  ASSUME ClaimScope
  PROVE  Spec => []ClaimExclusive
<1>1. ClaimInv => ClaimExclusive
  <2> SUFFICES ASSUME ClaimInv, NEW e \in Executors, NEW f \in Executors, e # f,
                      exec[e].pc \in {"create", "dial"}, exec[f].pc \in {"create", "dial"}
               PROVE  exec[e].task # exec[f].task
    BY DEF ClaimExclusive
  <2>1. exec[e].task \in Tasks
    BY DEF ClaimInv, TInv, ExecOK
  <2> QED
    BY <2>1 DEF ClaimInv, Guarded, OneHolder, Holds
<1> QED
  BY <1>1, ClaimScope, InitClaimInv, NextClaimInv, PTL DEF Spec

\* Without manual retries a task has one row, numbered 1, and the executor that
\* created it places the only call.
NoRetries ==
  \A q \in Requests : req[q].kind # "retry" /\ req[q].pc # "cleaned"

SingleInv ==
  /\ LedgerInv
  /\ NoRetries
  /\ \A t \in Tasks : session[t] = issued[t] /\ issued[t] \in {0, 1}
  /\ \A t \in Tasks, c \in Calls : Placed(t, c) => call[t][c].sid
  /\ \A t \in Tasks, c, d \in Calls : Placed(t, c) /\ Placed(t, d) => c = d

LEMMA NextNoRetries ==
  ASSUME "retry" \notin Kinds, TInv, NoRetries, [Next]_vars
  PROVE  NoRetries' /\ \A q \in Requests : ~CleanUp(q)
<1> SUFFICES NoRetries'
  BY DEF CleanUp, NoRetries
<1>t. req \in [Requests -> ReqRec]
  BY DEF TInv, ReqOK, ApiTypeOK
<1>1. ASSUME NEW q \in Requests, NEW kind \in RequestKinds, NEW t \in Tasks,
             LoadForRequest(q, kind, t)
      PROVE  NoRetries'
  BY <1>1, <1>t DEF LoadForRequest, NoRetries
<1>2. ASSUME NEW q \in Requests, RequestStep(q)
      PROVE  NoRetries'
  <2>1. Reply(q)
    BY <1>2 DEF RequestStep, Reschedule, Unschedule, Cancel, CleanUp, Reopen, NoRetries
  <2> QED
    BY <1>t, <2>1 DEF Reply, NoReq, NoRetries
<1>3. CASE User
  <2>1. UNCHANGED req \/ \E q \in Requests, kind \in RequestKinds, t \in Tasks :
                           LoadForRequest(q, kind, t)
    BY <1>3 DEF User, UserStep, Execute
  <2> QED
    BY <1>1, <2>1 DEF NoRetries
<1>4. CASE ApiCrash
  <2>1. \A q \in Requests : req'[q] = NoReq
    BY <1>4 DEF ApiCrash
  <2> QED
    BY <2>1 DEF NoReq, NoRetries
<1>5. CASE UNCHANGED req
  BY <1>5 DEF NoRetries
<1> QED
  BY <1>2, <1>3, <1>4, <1>5
  DEF Next, ClockStep, Telephone, Callback, Executor, Request, Poll, WorkerCrash, apiVars, vars

LEMMA NextSingleInv ==
  ASSUME "retry" \notin Kinds, ~RepliesMayBeLost, SingleInv, [Next]_vars
  PROVE  SingleInv'
<1> USE DEF SingleInv
<1>0. LedgerInv' /\ NoRetries' /\ \A q \in Requests : ~CleanUp(q)
  BY NextLedgerInv, NextNoRetries DEF LedgerInv
<1>1. CASE Quiet
  BY <1>0, <1>1 DEF Quiet, CallsKept
<1>2. ASSUME NEW e \in Executors, Create(e)
      PROVE  SingleInv'
  <2>1. /\ exec[e].task \in Tasks /\ session[exec[e].task] = 0 /\ UNCHANGED call
        /\ session' = [session EXCEPT ![exec[e].task] = issued[exec[e].task] + 1]
        /\ issued' = [issued EXCEPT ![exec[e].task] = issued[exec[e].task] + 1]
    BY <1>2, ExecType DEF Create, SessionFree, CreateSession, LedgerInv, TInv
  <2>2. \A t \in Tasks : session'[t] = issued'[t] /\ issued'[t] \in {0, 1}
    BY <2>1 DEF LedgerInv, TInv, StoreTypeOK
  <2> QED
    BY <1>0, <2>1, <2>2 DEF Placed
<1>3. ASSUME NEW e \in Executors, Dial(e) \/ DialRaises(e) \/ DialFails(e)
      PROVE  SingleInv'
  <2>0. PICK t \in Tasks, c \in Calls : t = exec[e].task /\ c = CallOf(e)
    BY <1>3, TryEffect DEF LedgerInv
  <2>1. /\ Dials(e, t, c[1]) /\ UNCHANGED <<session, issued>>
        /\ \A u \in Tasks, d \in Calls : ~(u = t /\ d = c) => call'[u][d] = call[u][d]
    <3>1. /\ exec[e].pc = "dial" /\ c[1] = exec[e].attempt
          /\ UNCHANGED <<session, issued>> /\ Tried(t, c)
      BY <1>3, <2>0, TryEffect DEF LedgerInv
    <3> QED
      BY <2>0, <3>1 DEF Dials, Tried
  <2>2. CASE UNCHANGED call
    BY <1>0, <2>1, <2>2 DEF Placed
  <2>3. CASE call'[t][c].sid = TRUE
    <3>1. ASSUME NEW d \in Calls
          PROVE  ~Placed(t, d)
      <4>1. d[1] \in Attempts /\ c[1] \in Attempts /\ issued[t] \in {0, 1}
        BY CallNumbers
      <4>2. c[1] <= issued[t] /\ (d[1] > issued[t] => ~Placed(t, d))
        BY <2>0, <2>1 DEF LedgerInv, AttemptInv
      <4>3. d[1] = c[1] => call[t][d].sid = FALSE
        BY <2>0, <2>1 DEF LedgerInv, AttemptInv
      <4>4. d[1] > issued[t] \/ d[1] = c[1]
        BY <4>1, <4>2
      <4> QED
        BY <4>2, <4>3, <4>4
    <3>2. \A u \in Tasks, d \in Calls : (Placed(u, d)' <=> call'[u][d].st # "none")
      BY DEF Placed
    <3>3. \A u \in Tasks, d \in Calls : Placed(u, d)' => call'[u][d].sid
      BY <2>1, <2>3, <3>2 DEF Placed
    <3>4. \A u \in Tasks, d, f \in Calls : Placed(u, d)' /\ Placed(u, f)' => d = f
      <4> SUFFICES ASSUME NEW u \in Tasks, NEW d \in Calls, NEW f \in Calls,
                          Placed(u, d)', Placed(u, f)'
                   PROVE  d = f
        OBVIOUS
      <4>1. CASE u = t
        BY <2>1, <3>1, <4>1 DEF Placed
      <4>2. CASE u # t
        BY <2>1, <4>2 DEF Placed
      <4> QED
        BY <4>1, <4>2
    <3> QED
      BY <1>0, <2>1, <3>3, <3>4
  <2> QED
    BY <1>3, <2>0, <2>2, <2>3, TryEffect DEF LedgerInv
<1> QED
  BY <1>0, <1>1, <1>2, <1>3, StepKinds

\* As long as no user retries by hand and calls.create is answered, no task ever
\* has two calls on the line, on either path, whatever clicks, edits, automatic
\* retries, callbacks, the janitor and both processes' restarts do, and however
\* the claim is lost on the legacy path: "prevents double-execution"
\* (tasks/repository.py) holds of the calls.  The run two_calls shows that it
\* does not once users may retry.
THEOREM CallsDoNotOverlap ==
  ASSUME "retry" \notin Kinds, ~RepliesMayBeLost
  PROVE  Spec => []OneLiveCall
<1>1. Init => SingleInv
  <2> SUFFICES ASSUME Init
               PROVE  SingleInv
    OBVIOUS
  <2>1. \A t \in Tasks, c \in Calls : ~Placed(t, c)
    BY DEF Init, TeleInit, NoCall, Placed
  <2> QED
    BY <2>1, InitLedgerInv DEF Init, StoreInit, ApiInit, NoReq, NoRetries, SingleInv
<1>2. SingleInv => OneLiveCall
  <2> SUFFICES ASSUME SingleInv, NEW t \in Tasks
               PROVE  Cardinality({c \in Calls : Connected(t, c)}) <= 1
    BY DEF OneLiveCall
  <2> DEFINE S == {c \in Calls : Connected(t, c)}
  <2>1. \A c, d \in S : c = d
    BY DEF SingleInv, Connected, Placed
  <2>2. S = {} \/ \E c \in S : S = {c}
    BY <2>1
  <2> HIDE DEF S
  <2>3. Cardinality(S) \in {0, 1}
    BY <2>2, FS_EmptySet, FS_Singleton
  <2> QED
    BY <2>3 DEF S
<1> QED
  BY <1>1, <1>2, NextSingleInv, PTL DEF Spec

-----------------------------------------------------------------------------
(* The semaphore *)

SemaphoreInv == IsFiniteSet(Holders) /\ Cardinality(Holders) <= MAX_CONCURRENT_CALLS

\* Only Acquire lets a coroutine in.
LEMMA HoldersGrow ==
  ASSUME TInv, [Next]_vars
  PROVE  Holders' \subseteq Holders \/ \E r \in Runs : Acquire(r)
<1> USE DEF TInv, ExecOK, ExecTypeOK
<1>1. ASSUME NEW e \in Executors, exec[e].pc \notin {"idle", "queued"},
             \A f \in Executors : f # e => exec'[f] = exec[f]
      PROVE  Holders' \subseteq Holders
  BY <1>1 DEF Holders
<1>2. ASSUME NEW e \in Executors, ExecStep(e), ~Acquire(e)
      PROVE  Holders' \subseteq Holders
  <2>1. exec[e].pc \notin {"idle", "queued"}
    BY <1>2 DEF ExecStep, Load, Claim, Seize, Create, CreateFails, Dial, DialRaises, DialFails,
       TalkFails, TalkEnds, StoreResult, Overrule
  <2>2. \E r : exec' = [exec EXCEPT ![e] = r]
    <3>1. CASE Load(e)
      BY <3>1 DEF Load, Refused, Advance, Finish, ExecRec
    <3>2. CASE Claim(e) \/ Seize(e) \/ Create(e) \/ CreateFails(e)
      BY <3>2 DEF Claim, Seize, Create, CreateFails, Refused, Advance, Finish
    <3>3. CASE Dial(e) \/ DialRaises(e) \/ DialFails(e) \/ TalkFails(e) \/ TalkEnds(e)
      BY <3>3 DEF Dial, DialRaises, DialFails, TalkFails, TalkEnds, Advance, Finish
    <3>4. CASE StoreResult(e) \/ Overrule(e)
      BY <3>4 DEF StoreResult, Overrule, Finish
    <3> QED
      BY <1>2, <3>1, <3>2, <3>3, <3>4 DEF ExecStep
  <2> QED
    BY <1>1, <2>1, <2>2
<1>3. Acquire(Worker) => Holders' \subseteq Holders
  BY ExecutionAssumption DEF Acquire, Advance, Holders
<1>4. ASSUME NEW t, Spawn(t) \/ StartWorker(t) \/ UNCHANGED exec
      PROVE  Holders' \subseteq Holders
  BY <1>4, ExecutionAssumption DEF Spawn, StartWorker, Idle, Holders
<1>5. ApiCrash \/ WorkerCrash => Holders' \subseteq Holders
  BY ExecutionAssumption DEF ApiCrash, WorkerCrash, Idle, Holders
<1>6. UserStep \/ (\E q \in Requests : RequestStep(q)) => UNCHANGED exec \/ \E t : Spawn(t)
  BY DEF UserStep, LoadForRequest, Execute, RequestStep, Reschedule, Unschedule, Cancel,
     CleanUp, Reopen
<1>7. SchedulerStep => UNCHANGED exec \/ \E t : StartWorker(t)
  BY DEF SchedulerStep, GetDueTasks, TakeDue, Promote, ScheduleRetryWindows,
     GetRetryableFailedTasks, TakeRetryable, MarkForRetry, ExecutionReturns, FindStuck, FailStuck
<1> QED
  BY <1>2, <1>3, <1>4, <1>5, <1>6, <1>7
  DEF Next, ClockStep, Telephone, Callback, Executor, Request, User, Poll, vars

LEMMA NextSemaphoreInv == TInv /\ SemaphoreInv /\ [Next]_vars => SemaphoreInv'
<1> SUFFICES ASSUME TInv, SemaphoreInv, [Next]_vars
             PROVE  SemaphoreInv'
  OBVIOUS
<1> USE DEF SemaphoreInv
<1>1. CASE Holders' \subseteq Holders
  BY <1>1, FS_Subset, FS_CardinalityType, ExecutionAssumption
<1>2. ASSUME NEW r \in Runs, Acquire(r)
      PROVE  SemaphoreInv'
  <2>1. Holders' = Holders \cup {r}
    BY <1>2 DEF Holders, Acquire, Advance, TInv, ExecOK, ExecTypeOK
  <2>2. Cardinality(Holders) < MAX_CONCURRENT_CALLS
    BY <1>2 DEF Acquire
  <2>3. IsFiniteSet(Holders') /\ Cardinality(Holders') \in {Cardinality(Holders), Cardinality(Holders) + 1}
    BY <2>1, FS_AddElement
  <2> QED
    BY <2>2, <2>3, FS_CardinalityType, ExecutionAssumption
<1> QED
  BY <1>1, <1>2, HoldersGrow

\* The executor that talks on a legacy call.
Drives(e, t, c) == exec[e].pc = "talk" /\ exec[e].task = t /\ CallOf(e) = c

\* A legacy dialog goes on only as long as its executor talks.
LegacyInv ==
  \A t \in Tasks, c \in Calls :
    call[t][c].st = "legacy" => \E e \in Executors : Drives(e, t, c)

\* The worker's executor is at work only while the worker waits for it.
WorkerWaits == exec[Worker].pc # "idle" => worker.pc \in {"dueRun", "retryRun"}

CapInv == TInv /\ SemaphoreInv /\ WorkerWaits /\ LegacyInv

\* No dialog begins, and nobody who talks stops.
NoneBegins ==
  \A t \in Tasks, c \in Calls : call'[t][c].st = "legacy" => call[t][c].st = "legacy"

LEMMA DriversStay ==
  ASSUME LegacyInv, NoneBegins,
         \A e \in Executors : exec[e].pc = "talk" => exec'[e] = exec[e]
  PROVE  LegacyInv'
<1> SUFFICES ASSUME NEW t \in Tasks, NEW c \in Calls, call'[t][c].st = "legacy"
             PROVE  \E e \in Executors : Drives(e, t, c)'
  BY DEF LegacyInv
<1>1. PICK e \in Executors : Drives(e, t, c)
  BY DEF LegacyInv, NoneBegins
<1>2. exec'[e] = exec[e]
  BY <1>1 DEF Drives
<1> QED
  BY <1>1, <1>2 DEF Drives, CallOf

\* One call changes its state, and not to a dialog.
LEMMA OneChanges ==
  ASSUME TInv, NEW t \in Tasks, NEW c \in Calls, NEW k,
         call' = [call EXCEPT ![t][c] = k], k.st # "legacy" \/ k.st = call[t][c].st
  PROVE  NoneBegins
<1>1. \A u \in Tasks, d \in Calls : call'[u][d] = IF u = t /\ d = c THEN k ELSE call[u][d]
  BY DEF TInv, TeleTypeOK
<1> QED
  BY <1>1 DEF NoneBegins

LEMMA GotoBegins ==
  ASSUME TInv, NEW t \in Tasks, NEW c \in Calls, NEW s, Goto(t, c, s), s # "legacy"
  PROVE  NoneBegins
<1> DEFINE k == [call[t][c] EXCEPT !.st = s]
<1>1. k.st = s
  BY CallType DEF TInv, CallRec
<1>2. call' = [call EXCEPT ![t][c] = k]
  BY DEF Goto, TInv, TeleTypeOK
<1> HIDE DEF k
<1> QED
  BY <1>1, <1>2, OneChanges

LEMMA PlaceBegins ==
  ASSUME TInv, NEW t \in Tasks, NEW c \in Calls, NEW s, NEW cb, NEW sid, s # "legacy",
         call' = [call EXCEPT ![t][c].st = s, ![t][c].cb = cb, ![t][c].sid = sid]
  PROVE  NoneBegins
<1> DEFINE k == [call[t][c] EXCEPT !.st = s, !.cb = cb, !.sid = sid]
<1>1. k.st = s
  BY CallType DEF TInv, CallRec
<1>2. call' = [call EXCEPT ![t][c] = k]
  BY DEF TInv, TeleTypeOK
<1> HIDE DEF k
<1> QED
  BY <1>1, <1>2, OneChanges

LEMMA LegacyTelephone ==
  ASSUME TInv, LegacyInv, NEW t \in Tasks, NEW c \in Calls,
         CallStep(t, c) \/ CallbackStep(t, c), UNCHANGED exec
  PROVE  LegacyInv'
<1> SUFFICES NoneBegins
  BY DriversStay
<1>0. call[t][c] \in CallRec
  BY CallType DEF TInv
<1>1. CASE Answer(t, c) \/ RingOut(t, c)
  <2>1. PICK s \in {"live", "unanswered"}, cb \in {"over"} \cup CallbackKinds :
          call' = [call EXCEPT ![t][c].st = s, ![t][c].cb = cb]
    BY <1>1 DEF Answer, RingOut
  <2> DEFINE k == [call[t][c] EXCEPT !.st = s, !.cb = cb]
  <2>2. k.st = s
    BY <1>0 DEF CallRec
  <2>3. call' = [call EXCEPT ![t][c] = k]
    BY <2>1 DEF TInv, TeleTypeOK
  <2> HIDE DEF k
  <2> QED
    BY <2>2, <2>3, OneChanges
<1>2. CASE StreamRejected(t, c) \/ BridgeEnds(t, c) \/ StrayEnds(t, c) \/ FinalizeSave(t, c)
  BY <1>2, GotoBegins DEF StreamRejected, BridgeEnds, StrayEnds, FinalizeSave
<1>3. CASE FinalizeLoad(t, c)
  <2> DEFINE k == [call[t][c] EXCEPT !.st = "loaded", !.status = task[t].status,
                     !.err = task[t].error_reason, !.sess = session[t]]
  <2>1. call' = [call EXCEPT ![t][c] = k]
    BY <1>3 DEF FinalizeLoad, TInv, TeleTypeOK
  <2>2. k.st = "loaded"
    BY <1>0 DEF CallRec
  <2> HIDE DEF k
  <2> QED
    BY <2>1, <2>2, OneChanges
<1>4. CASE FinalizeStore(t, c)
  <2> DEFINE k == [call[t][c] EXCEPT !.st = "done", !.status = "PENDING",
                     !.err = "none", !.sess = 0]
  <2>1. call' = [call EXCEPT ![t][c] = k]
    <3>1. call' = [call EXCEPT ![t][c].st = "done", ![t][c].status = "PENDING",
                               ![t][c].err = "none", ![t][c].sess = 0]
      BY <1>4 DEF FinalizeStore
    <3> QED
      BY <3>1 DEF TInv, TeleTypeOK
  <2>2. k.st = "done"
    BY <1>0 DEF CallRec
  <2> HIDE DEF k
  <2> QED
    BY <2>1, <2>2, OneChanges
<1>5. CASE CallbackLoad(t, c)
  <2> DEFINE cb == IF task[t].status \in {"COMPLETED", "FAILED"} THEN "over" ELSE "armed"
             s == IF call[t][c].st = "live" THEN "closing" ELSE call[t][c].st
             k == [call[t][c] EXCEPT !.cb = cb, !.st = s]
  <2>1. call' = [call EXCEPT ![t][c] = k]
    BY <1>0, <1>5 DEF CallbackLoad, TInv, TeleTypeOK, CallRec
  <2>2. k.st = s
    BY <1>0 DEF CallRec
  <2>3. s # "legacy" \/ s = call[t][c].st
    OBVIOUS
  <2> HIDE DEF k, s
  <2> QED
    BY <2>1, <2>2, <2>3, OneChanges
<1>6. CASE CallbackStore(t, c)
  <2> DEFINE k == [call[t][c] EXCEPT !.cb = "over"]
  <2>1. call' = [call EXCEPT ![t][c] = k]
    BY <1>6 DEF CallbackStore, TInv, TeleTypeOK
  <2>2. k.st = call[t][c].st
    BY <1>0 DEF CallRec
  <2> HIDE DEF k
  <2> QED
    BY <2>1, <2>2, OneChanges
<1>7. CASE EndedCallback(t, c)
  BY <1>7 DEF EndedCallback, NoneBegins
<1> QED
  BY <1>1, <1>2, <1>3, <1>4, <1>5, <1>6, <1>7 DEF CallStep, CallbackStep

\* The dialog begins with its driver.
LEMMA LegacyDial ==
  ASSUME TInv, LegacyInv, NEW e \in Executors, Dial(e), ~exec[e].realtime
  PROVE  LegacyInv'
<1>0. PICK t \in Tasks, c \in Calls : t = exec[e].task /\ c = CallOf(e)
  BY ExecType DEF TInv, Dial
<1>1. /\ \A u \in Tasks, d \in Calls : ~(u = t /\ d = c) => call'[u][d] = call[u][d]
      /\ \A f \in Executors : f # e => exec'[f] = exec[f]
  <2>1. Tried(t, c) /\ \A f \in Executors : f # e => exec'[f] = exec[f]
    BY <1>0, TryEffect
  <2> QED
    BY <2>1 DEF Tried
<1>2. exec[e].pc = "dial" /\ Drives(e, t, c)'
  <2>1. exec[e].pc = "dial" /\ exec[e] \in ExecRec /\ Advance(e, "talk")
    BY DEF Dial, TInv, ExecOK, ExecTypeOK
  <2>2. exec'[e].pc = "talk" /\ exec'[e].task = t /\ CallOf(e)' = c
    BY <1>0, <2>1 DEF Advance, CallOf, TInv, ExecOK, ExecTypeOK, ExecRec
  <2> QED
    BY <2>1, <2>2 DEF Drives
<1> SUFFICES ASSUME NEW u \in Tasks, NEW d \in Calls, call'[u][d].st = "legacy"
             PROVE  \E f \in Executors : Drives(f, u, d)'
  BY DEF LegacyInv
<1>3. CASE u = t /\ d = c
  BY <1>2, <1>3
<1>4. CASE ~(u = t /\ d = c)
  <2>1. PICK f \in Executors : Drives(f, u, d)
    BY <1>1, <1>4 DEF LegacyInv
  <2>2. exec'[f] = exec[f]
    BY <1>1, <1>2, <2>1 DEF Drives
  <2> QED
    BY <2>1, <2>2 DEF Drives, CallOf
<1> QED
  BY <1>3, <1>4

\* The dialog is over when its driver leaves.
LEMMA LegacyTalk ==
  ASSUME TInv, LegacyInv, NEW e \in Executors, TalkFails(e) \/ TalkEnds(e)
  PROVE  LegacyInv'
<1>0. PICK t \in Tasks, c \in Calls : t = exec[e].task /\ c = CallOf(e)
  BY ExecType DEF TInv, TalkFails, TalkEnds
<1>1. PICK s \in {"done", "stray"} : Goto(t, c, s)
  BY <1>0 DEF TalkFails, TalkEnds, LetGo
<1>2. call'[t][c].st = s
  <2>1. call[t][c] \in CallRec
    BY CallType DEF TInv
  <2> QED
    BY <1>1, <2>1 DEF Goto, TInv, TeleTypeOK, CallRec
<1>3. NoneBegins
  BY <1>1, GotoBegins
<1>4. \A f \in Executors : f # e => exec'[f] = exec[f]
  BY DEF TalkFails, TalkEnds, Finish, TInv, ExecOK, ExecTypeOK
<1> SUFFICES ASSUME NEW u \in Tasks, NEW d \in Calls, call'[u][d].st = "legacy"
             PROVE  \E f \in Executors : Drives(f, u, d)'
  BY DEF LegacyInv
<1>5. PICK f \in Executors : Drives(f, u, d)
  BY <1>3 DEF NoneBegins, LegacyInv
<1>6. f # e
  BY <1>0, <1>2, <1>5 DEF Drives
<1> QED
  BY <1>4, <1>5, <1>6 DEF Drives, CallOf

LEMMA LegacyExecutor ==
  ASSUME TInv, LegacyInv, NEW e \in Executors, ExecStep(e)
  PROVE  LegacyInv'
<1>1. CASE \/ Acquire(e) \/ Load(e) \/ Claim(e) \/ Seize(e) \/ Create(e) \/ CreateFails(e)
           \/ StoreResult(e) \/ Overrule(e)
  <2>1. UNCHANGED call /\ exec[e].pc # "talk"
    BY <1>1 DEF Acquire, Load, Claim, Seize, Create, CreateFails, StoreResult, Overrule
  <2>2. \A f \in Executors : f # e => exec'[f] = exec[f]
    <3>1. \E r : exec' = [exec EXCEPT ![e] = r]
      <4>1. CASE Load(e)
        BY <4>1 DEF Load, Refused, Advance, Finish, TInv, ExecOK, ExecTypeOK, ExecRec
      <4>2. CASE Acquire(e) \/ Claim(e) \/ Seize(e) \/ Create(e) \/ CreateFails(e)
        BY <4>2 DEF Acquire, Claim, Seize, Create, CreateFails, Refused, Advance, Finish
      <4>3. CASE StoreResult(e) \/ Overrule(e)
        BY <4>3 DEF StoreResult, Overrule, Finish
      <4> QED
        BY <1>1, <4>1, <4>2, <4>3
    <3> QED
      BY <3>1 DEF TInv, ExecOK, ExecTypeOK
  <2> QED
    BY <2>1, <2>2, DriversStay DEF NoneBegins
<1>2. CASE (Dial(e) /\ exec[e].realtime) \/ DialRaises(e) \/ DialFails(e)
  <2>1. /\ exec[e].task \in Tasks /\ CallOf(e) \in Calls /\ exec[e].pc = "dial"
        /\ \A f \in Executors : f # e => exec'[f] = exec[f]
    BY <1>2, TryEffect
  <2>2. NoneBegins
    <3>1. CASE UNCHANGED call
      BY <3>1 DEF NoneBegins
    <3>2. CASE exec[e].realtime /\ ~UNCHANGED call
      <4>1. \E sid : Place(exec[e].task, CallOf(e), "ringing", "none", sid)
        BY <1>2, <3>2 DEF Dial, DialRaises, DialFails, TryRaises
      <4>2. PICK sid : Place(exec[e].task, CallOf(e), "ringing", "none", sid)
        BY <4>1
      <4> QED
        BY <2>1, <4>2, PlaceBegins DEF Place
    <3>3. CASE ~exec[e].realtime /\ ~UNCHANGED call
      <4>1. PICK cb : Place(exec[e].task, CallOf(e), "stray", cb, FALSE)
        BY <1>2, <3>3 DEF DialRaises, DialFails, TryRaises
      <4> QED
        BY <2>1, <4>1, PlaceBegins DEF Place
    <3> QED
      BY <3>1, <3>2, <3>3
  <2> QED
    BY <2>1, <2>2, DriversStay
<1> QED
  BY <1>1, <1>2, LegacyDial, LegacyTalk DEF ExecStep

\* A process that restarts orphans the calls its executors drove, so a dialog
\* that goes on is driven by the other one.
LEMMA LegacyCrash ==
  ASSUME TInv, LegacyInv, ApiCrash \/ WorkerCrash
  PROVE  LegacyInv'
<1> USE DEF TInv, ExecOK, ExecTypeOK
<1> SUFFICES ASSUME NEW t \in Tasks, NEW c \in Calls, call'[t][c].st = "legacy"
             PROVE  \E e \in Executors : Drives(e, t, c)'
  BY DEF LegacyInv
<1>1. call[t][c].st = "legacy" /\ call[t][c] \in CallRec
  BY CrashedCalls, CallType
<1>2. \A k \in CallRec : k.st = "legacy" => Orphan(k).st = "stray"
  BY DEF Orphan, CallRec
<1>3. PICK e \in Executors : Drives(e, t, c)
  BY <1>1 DEF LegacyInv
<1> SUFFICES exec'[e] = exec[e]
  BY <1>3 DEF Drives, CallOf
<1>4. CASE ApiCrash
  <2>1. e \notin Runs
    <3> SUFFICES ASSUME e \in Runs PROVE FALSE
      OBVIOUS
    <3> DEFINE k == [call[t][c] EXCEPT !.cb = IF @ = "armed" THEN "over" ELSE @]
    <3>1. k \in CallRec /\ k.st = "legacy"
      BY <1>1 DEF CallRec
    <3>2. DrivenBy(Runs, t, c)
      BY <1>1, <1>3 DEF DrivenBy, Drives
    <3>3. call'[t][c] = Orphan(k)
      BY <1>4, <3>2 DEF ApiCrash
    <3> HIDE DEF k
    <3> QED
      BY <1>2, <3>1, <3>3
  <2> QED
    BY <1>4, <2>1 DEF ApiCrash
<1>5. CASE WorkerCrash
  <2>1. e # Worker
    <3> SUFFICES ASSUME e = Worker PROVE FALSE
      OBVIOUS
    <3>1. DrivenBy({Worker}, t, c)
      BY <1>1, <1>3 DEF DrivenBy, Drives
    <3>2. call'[t][c] = Orphan(call[t][c])
      BY <1>5, <3>1 DEF WorkerCrash
    <3> QED
      BY <1>1, <1>2, <3>2
  <2> QED
    BY <1>5, <2>1 DEF WorkerCrash
<1> QED
  BY <1>4, <1>5

LEMMA PollStarts ==
  ASSUME TInv, Poll
  PROVE  /\ UNCHANGED call
         /\ \/ UNCHANGED exec
            \/ /\ worker.pc \notin {"dueRun", "retryRun"}
               /\ worker'.pc \in {"dueRun", "retryRun"}
               /\ \E t : StartWorker(t)
<1>0. SchedulerStep
  BY DEF Poll
<1>1. CASE TakeDue
  BY <1>1 DEF TakeDue, Now
<1>2. CASE TakeRetryable
  BY <1>2 DEF TakeRetryable, Now
<1>3. CASE Promote \/ MarkForRetry
  <2>1. worker.pc \notin {"dueRun", "retryRun"} /\ UNCHANGED call /\ StartWorker(worker.task)
    BY <1>3 DEF Promote, MarkForRetry
  <2>2. worker'.pc \in {"dueRun", "retryRun"}
    BY <1>3 DEF Promote, MarkForRetry, Now
  <2> QED
    BY <2>1, <2>2
<1> QED
  BY <1>0, <1>1, <1>2, <1>3 DEF SchedulerStep, GetDueTasks, ScheduleRetryWindows,
     GetRetryableFailedTasks, ExecutionReturns, FindStuck, FailStuck

LEMMA NextWorkerWaits ==
  ASSUME TInv, WorkerWaits, [Next]_vars
  PROVE  WorkerWaits'
<1> USE DEF TInv, ExecOK, ExecTypeOK, WorkerWaits
<1>1. ASSUME NEW e \in Executors, Executor(e)
      PROVE  WorkerWaits'
  <2>1. exec[e].pc # "idle" /\ worker' = worker
    BY <1>1 DEF Executor, ExecStep, Acquire, Load, Claim, Seize, Create, CreateFails, Dial,
       DialRaises, DialFails, TalkFails, TalkEnds, StoreResult, Overrule
  <2>2. \A f \in Executors : f # e => exec'[f] = exec[f]
    <3>1. CASE Load(e)
      BY <3>1 DEF Load, Refused, Advance, Finish, ExecRec
    <3>2. CASE Acquire(e) \/ Claim(e) \/ Seize(e) \/ Create(e) \/ CreateFails(e)
      BY <3>2 DEF Acquire, Claim, Seize, Create, CreateFails, Refused, Advance, Finish
    <3>3. CASE Dial(e) \/ DialRaises(e) \/ DialFails(e) \/ TalkFails(e) \/ TalkEnds(e)
      BY <3>3 DEF Dial, DialRaises, DialFails, TalkFails, TalkEnds, Advance, Finish
    <3>4. CASE StoreResult(e) \/ Overrule(e)
      BY <3>4 DEF StoreResult, Overrule, Finish
    <3> QED
      BY <1>1, <3>1, <3>2, <3>3, <3>4 DEF Executor, ExecStep
  <2> QED
    BY <2>1, <2>2
<1>2. ASSUME User \/ \E q \in Requests : Request(q)
      PROVE  WorkerWaits'
  <2>1. worker' = worker /\ (UNCHANGED exec \/ \E t : Spawn(t))
    BY <1>2 DEF User, UserStep, LoadForRequest, Execute, Request, RequestStep, Reschedule,
       Unschedule, Cancel, CleanUp, Reopen
  <2> QED
    BY <2>1, ExecutionAssumption DEF Spawn
<1>3. CASE Poll
  <2>1. CASE UNCHANGED exec
    BY <1>3, <2>1 DEF Poll, SchedulerStep, GetDueTasks, TakeDue, Promote, ScheduleRetryWindows,
       GetRetryableFailedTasks, TakeRetryable, MarkForRetry, ExecutionReturns, FindStuck,
       FailStuck, Now
  <2>2. CASE ~UNCHANGED exec
    BY <1>3, <2>2, PollStarts
  <2> QED
    BY <2>1, <2>2
<1>4. CASE ApiCrash \/ WorkerCrash
  BY <1>4 DEF ApiCrash, WorkerCrash, Idle
<1> QED
  BY <1>1, <1>2, <1>3, <1>4
  DEF Next, ClockStep, Telephone, Callback, vars, schedVars

\* Requests and the worker's loop only start executors, and none that talks.
LEMMA LegacyStart ==
  ASSUME TInv, LegacyInv, UNCHANGED call,
         \/ UNCHANGED exec
         \/ \E t : Spawn(t)
         \/ exec[Worker].pc = "idle" /\ \E t : StartWorker(t)
  PROVE  LegacyInv'
<1>1. NoneBegins
  BY DEF NoneBegins
<1>2. \A e \in Executors : exec[e].pc = "talk" => exec'[e] = exec[e]
  BY DEF Spawn, StartWorker, TInv, ExecOK, ExecTypeOK
<1> QED
  BY <1>1, <1>2, DriversStay

LEMMA NextCapInv == CapInv /\ [Next]_vars => CapInv'
<1> SUFFICES ASSUME CapInv, [Next]_vars
             PROVE  LegacyInv'
  BY NextTInv, NextSemaphoreInv, NextWorkerWaits DEF CapInv
<1> USE DEF CapInv
<1>1. ASSUME NEW t \in Tasks, ClockStep(t)
      PROVE  LegacyInv'
  BY <1>1, LegacyStart DEF ClockStep
<1>2. ASSUME NEW t \in Tasks, NEW c \in Calls, Telephone(t, c) \/ Callback(t, c)
      PROVE  LegacyInv'
  BY <1>2, LegacyTelephone DEF Telephone, Callback
<1>3. ASSUME NEW e \in Executors, Executor(e)
      PROVE  LegacyInv'
  BY <1>3, LegacyExecutor DEF Executor
<1>4. ASSUME User \/ \E q \in Requests : Request(q)
      PROVE  LegacyInv'
  <2>1. UNCHANGED call /\ (UNCHANGED exec \/ \E t : Spawn(t))
    BY <1>4 DEF User, UserStep, LoadForRequest, Execute, Request, RequestStep, Reschedule,
       Unschedule, Cancel, CleanUp, Reopen
  <2> QED
    BY <2>1, LegacyStart
<1>5. CASE Poll
  <2>1. /\ UNCHANGED call
        /\ \/ UNCHANGED exec
           \/ /\ worker.pc \notin {"dueRun", "retryRun"}
              /\ worker'.pc \in {"dueRun", "retryRun"}
              /\ \E t : StartWorker(t)
    BY <1>5, PollStarts, Zenon
  <2>2. CASE UNCHANGED exec
    BY <2>1, <2>2, LegacyStart
  <2>3. CASE exec[Worker].pc = "idle" /\ \E t : StartWorker(t)
    BY <2>1, <2>3, LegacyStart
  <2> QED
    BY <2>1, <2>2, <2>3 DEF WorkerWaits
<1>6. CASE ApiCrash \/ WorkerCrash
  BY <1>6, LegacyCrash
<1>7. CASE UNCHANGED vars
  BY <1>7, LegacyStart DEF vars, teleVars
<1> QED
  BY <1>1, <1>2, <1>3, <1>4, <1>5, <1>6, <1>7 DEF Next

LEMMA InitCapInv == Init => CapInv
<1> SUFFICES ASSUME Init
             PROVE  SemaphoreInv /\ WorkerWaits /\ LegacyInv
  BY InitTInv DEF CapInv
<1>1. \A e \in Executors : exec[e].pc = "idle"
  BY DEF Init, ExecInit, Idle
<1>2. Holders = {}
  BY <1>1 DEF Holders
<1>3. SemaphoreInv
  BY <1>2, FS_EmptySet, ExecutionAssumption DEF SemaphoreInv
<1>4. \A t \in Tasks, c \in Calls : call[t][c].st = "none"
  BY DEF Init, TeleInit, NoCall
<1> QED
  BY <1>1, <1>3, <1>4 DEF WorkerWaits, LegacyInv

LegacyDialogs == {tc \in Tasks \X Calls : call[tc[1]][tc[2]].st = "legacy"}

\* Every dialog has a driver, a driver only one dialog, and all drivers but the
\* worker's hold the semaphore.
LEMMA DriversCap == CapInv => Cardinality(LegacyDialogs) <= MAX_CONCURRENT_CALLS + 1
<1> SUFFICES ASSUME CapInv
             PROVE  Cardinality(LegacyDialogs) <= MAX_CONCURRENT_CALLS + 1
  OBVIOUS
<1> USE DEF CapInv
<1> DEFINE D == Holders \cup {Worker}
           of == [e \in D |-> <<exec[e].task, CallOf(e)>>]
           T == {of[e] : e \in D}
<1>1. IsFiniteSet(D) /\ Cardinality(D) <= MAX_CONCURRENT_CALLS + 1
  <2>1. IsFiniteSet(Holders) /\ Cardinality(Holders) <= MAX_CONCURRENT_CALLS
    BY DEF SemaphoreInv
  <2>2. /\ IsFiniteSet(D)
        /\ Cardinality(D) \in {Cardinality(Holders), Cardinality(Holders) + 1}
    BY <2>1, FS_AddElement
  <2>3. Cardinality(Holders) \in Nat
    BY <2>1, FS_CardinalityType
  <2> HIDE DEF D
  <2> QED
    BY <2>1, <2>2, <2>3, ExecutionAssumption
<1>2. ASSUME NEW tc \in LegacyDialogs
      PROVE  tc \in T
  <2>1. PICK t \in Tasks, c \in Calls : tc = <<t, c>>
    BY DEF LegacyDialogs
  <2>2. call[t][c].st = "legacy"
    BY <2>1 DEF LegacyDialogs
  <2>3. PICK e \in Executors : Drives(e, t, c)
    BY <2>2 DEF LegacyInv
  <2>4. e \in D /\ of[e] = tc
    BY <2>1, <2>3 DEF Drives, Holders
  <2> QED
    BY <2>4
<1>3. of \in Surjection(D, T)
  BY DEF Surjection
<1> HIDE DEF D, of, T
<1>4. IsFiniteSet(T) /\ Cardinality(T) <= Cardinality(D)
  BY <1>1, <1>3, FS_Surjection
<1>5. LegacyDialogs \subseteq T
  BY <1>2
<1>6. IsFiniteSet(LegacyDialogs) /\ Cardinality(LegacyDialogs) <= Cardinality(T)
  BY <1>4, <1>5, FS_Subset
<1> QED
  BY <1>1, <1>4, <1>6, FS_CardinalityType, ExecutionAssumption

\* What the semaphore that "caps concurrent outbound calls" (core/concurrency.py)
\* does cap, whatever retries, callbacks and restarts come between: the legacy
\* dialogs, at MAX_CONCURRENT_CALLS in the API process and one in the worker,
\* whose executors leave only when they stop talking.  It caps neither the
\* realtime calls, whose executors leave once they have dialled (the run
\* call_cap), nor the lines a failed dialog leaves open.
THEOREM SemaphoreCapsDialogs ==
  Spec => [](Cardinality(LegacyDialogs) <= MAX_CONCURRENT_CALLS + 1)
  BY InitCapInv, NextCapInv, DriversCap, PTL DEF Spec
=============================================================================
