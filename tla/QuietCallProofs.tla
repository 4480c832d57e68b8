--------------------------- MODULE QuietCallProofs ---------------------------
(***************************************************************************)
(* Theorems about the running system, for every number of tasks, attempts, *)
(* executors, requests and crashes.                                        *)
(***************************************************************************)
EXTENDS QuietCallProperties, TLAPS

USE TaskStoreAssumption, TelephonyAssumption, ExecutionAssumption, ApiAssumption,
    CrashAssumption
USE DEF Executors, Attempts, Tries

-----------------------------------------------------------------------------
(* Types *)

\* Whoever is at work has a task in hand, and an attempt from the dial on:
\* without that the call an executor places would have no entry to go to.
ExecOK ==
  /\ ExecTypeOK
  /\ \A e \in Executors :
       /\ exec[e].pc # "idle" => exec[e].task \in Tasks
       /\ exec[e].pc \in {"dial", "talk"} => exec[e].attempt \in Attempts /\ exec[e].try \in Tries

ReqOK ==
  /\ ApiTypeOK
  /\ \A q \in Requests : req[q].pc # "idle" => req[q].task \in Tasks

WorkerOK ==
  /\ SchedTypeOK
  /\ worker.pc \in {"promote", "dueRun", "mark", "retryRun"} => worker.task \in Tasks

TInv ==
  /\ StoreTypeOK
  /\ TeleTypeOK
  /\ ExecOK
  /\ ReqOK
  /\ WorkerOK
  /\ crashes \in 0..MaxCrashes

\* What an action leaves alone keeps its type.
LEMMA Untouched ==
  ASSUME TInv
  PROVE  /\ UNCHANGED storeVars => StoreTypeOK'
         /\ UNCHANGED call => TeleTypeOK'
         /\ UNCHANGED exec => ExecOK'
         /\ UNCHANGED apiVars => ReqOK'
         /\ UNCHANGED worker => WorkerOK'
         /\ UNCHANGED crashes => crashes' \in 0..MaxCrashes
  BY DEF TInv, storeVars, apiVars, StoreTypeOK, TeleTypeOK, ExecOK, ExecTypeOK, ReqOK,
         ApiTypeOK, WorkerOK, SchedTypeOK

LEMMA InitTInv == Init => TInv
  BY DEF Init, TInv, StoreInit, TeleInit, ExecInit, ApiInit, SchedInit, StoreTypeOK, NewRow,
     Row, TaskStatus, OpenStatus, ErrorReason, RetryableErrors, TeleTypeOK, CallRec, NoCall,
     CallState, ExecOK, ExecTypeOK, ExecRec, Idle, ReqOK, ApiTypeOK, ReqRec, NoReq, WorkerOK,
     SchedTypeOK, WorkerRec, NewTick

\* One row changes.
LEMMA RowUpdate ==
  ASSUME StoreTypeOK, NEW t \in Tasks, NEW r \in Row, task' = [task EXCEPT ![t] = r],
         UNCHANGED <<session, data, issued>>
  PROVE  StoreTypeOK'
  BY DEF StoreTypeOK

LEMMA RowType ==
  ASSUME StoreTypeOK, NEW t \in Tasks
  PROVE  /\ task[t] \in Row
         /\ task[t].status \in TaskStatus
         /\ task[t].error_reason \in ErrorReason
         /\ task[t].retry_count \in Nat
  BY DEF StoreTypeOK, Row

LEMMA StatusUpdate ==
  ASSUME StoreTypeOK, NEW t \in Tasks, NEW s \in TaskStatus, SetStatus(t, s),
         UNCHANGED <<session, data, issued>>
  PROVE  StoreTypeOK'
  BY DEF StoreTypeOK, SetStatus, Row

LEMMA FailedUpdate ==
  ASSUME StoreTypeOK, NEW t \in Tasks, NEW reason \in ErrorReason, SetFailed(t, reason),
         UNCHANGED <<session, data, issued>>
  PROVE  StoreTypeOK'
<1>1. [task[t] EXCEPT !.status = "FAILED", !.error_reason = reason] \in Row
  BY RowType DEF Row, TaskStatus
<1>2. task' = [task EXCEPT ![t] = [task[t] EXCEPT !.status = "FAILED", !.error_reason = reason]]
  BY DEF SetFailed, StoreTypeOK
<1> QED
  BY <1>1, <1>2, RowUpdate

LEMMA SessionDataUpdate ==
  ASSUME StoreTypeOK, NEW t \in Tasks, NEW a \in Attempts, UNCHANGED task,
         \/ CreateSession(t)
         \/ DeleteSession(t)
         \/ WriteSession(t, a) /\ UNCHANGED <<session, issued>>
         \/ UNCHANGED <<session, issued, data>>
  PROVE  StoreTypeOK'
  BY DEF StoreTypeOK, CreateSession, DeleteSession, WriteSession

\* A call is an attempt and a try.
LEMMA CallNumbers ==
  /\ \A c \in Calls : c = <<c[1], c[2]>> /\ c[1] \in Attempts /\ c[2] \in Tries
  /\ \A a \in Attempts, k \in Tries :
       <<a, k>> \in Calls /\ <<a, k>>[1] = a /\ <<a, k>>[2] = k
  BY DEF Calls

\* One call changes.
LEMMA CallUpdate ==
  ASSUME TeleTypeOK, NEW t \in Tasks, NEW a \in Calls, NEW c \in CallRec,
         call' = [call EXCEPT ![t][a] = c]
  PROVE  TeleTypeOK'
  BY DEF TeleTypeOK

LEMMA CallType ==
  ASSUME TeleTypeOK, NEW t \in Tasks, NEW a \in Calls
  PROVE  call[t][a] \in CallRec
  BY DEF TeleTypeOK

LEMMA GotoUpdate ==
  ASSUME TeleTypeOK, NEW t \in Tasks, NEW a \in Calls, NEW s \in CallState, Goto(t, a, s)
  PROVE  TeleTypeOK'
<1>1. [call[t][a] EXCEPT !.st = s] \in CallRec
  BY CallType DEF CallRec
<1>2. call' = [call EXCEPT ![t][a] = [call[t][a] EXCEPT !.st = s]]
  BY DEF TeleTypeOK, Goto
<1> QED
  BY <1>1, <1>2, CallUpdate

\* Twilio places a call.
LEMMA PlacedType ==
  ASSUME TeleTypeOK, NEW t \in Tasks, NEW a \in Calls, NEW s \in CallState,
         NEW cb \in {"none", "over", "noanswer", "machine"}, NEW sid \in BOOLEAN
  PROVE  [call[t][a] EXCEPT !.st = s, !.cb = cb, !.sid = sid] \in CallRec
  BY CallType DEF CallRec

LEMMA RaisedUpdate ==
  ASSUME TeleTypeOK, NEW e \in Executors, exec[e].task \in Tasks, CallOf(e) \in Calls,
         TryRaises(e)
  PROVE  TeleTypeOK'
<1>1. CASE UNCHANGED call
  BY <1>1 DEF TeleTypeOK
<1>2. ASSUME NEW s \in {"ringing", "stray"}, NEW cb \in {"none"} \cup LegacyCallbacks,
             Place(exec[e].task, CallOf(e), s, cb, FALSE)
      PROVE  TeleTypeOK'
  <2>1. s \in CallState /\ cb \in {"none", "over", "noanswer", "machine"}
    BY DEF CallState, LegacyCallbacks
  <2> DEFINE t == exec[e].task  c == CallOf(e)
             k == [call[t][c] EXCEPT !.st = s, !.cb = cb, !.sid = FALSE]
  <2>2. k \in CallRec
    BY <2>1, PlacedType
  <2>3. call' = [call EXCEPT ![t][c] = k]
    BY <1>2 DEF Place, TeleTypeOK
  <2> HIDE DEF k
  <2> QED
    BY <2>2, <2>3, CallUpdate
<1> QED
  BY <1>1, <1>2 DEF TryRaises

\* One executor moves.
LEMMA ExecUpdate ==
  ASSUME ExecOK, NEW e \in Executors, NEW r \in ExecRec,
         r.pc # "idle" => r.task \in Tasks,
         r.pc \in {"dial", "talk"} => r.attempt \in Attempts /\ r.try \in Tries,
         exec' = [exec EXCEPT ![e] = r]
  PROVE  ExecOK'
  BY DEF ExecOK, ExecTypeOK

LEMMA ExecType ==
  ASSUME ExecOK, NEW e \in Executors
  PROVE  /\ exec[e] \in ExecRec
         /\ exec[e].pc # "idle" => exec[e].task \in Tasks
         /\ exec[e].pc \in {"dial", "talk"} =>
              exec[e].attempt \in Attempts /\ exec[e].try \in Tries /\ CallOf(e) \in Calls
  BY CallNumbers DEF CallOf, ExecOK, ExecTypeOK

LEMMA IdleType == Idle \in ExecRec /\ Idle.pc = "idle"
  BY DEF ExecRec, Idle

LEMMA FinishUpdate ==
  ASSUME ExecOK, NEW e \in Executors, Finish(e)
  PROVE  ExecOK'
  BY IdleType, ExecUpdate DEF Finish

LEMMA AdvanceUpdate ==
  ASSUME ExecOK, NEW e \in Executors, exec[e].pc # "idle",
         NEW pc \in {"load", "claim", "seize", "create", "overrule"}, Advance(e, pc)
  PROVE  ExecOK'
<1> DEFINE r == [exec[e] EXCEPT !.pc = pc]
<1>1. r \in ExecRec /\ r.task \in Tasks /\ r.pc = pc
  BY ExecType DEF ExecRec
<1>2. exec' = [exec EXCEPT ![e] = r]
  BY DEF Advance, ExecOK, ExecTypeOK
<1> QED
  BY <1>1, <1>2, ExecUpdate

-----------------------------------------------------------------------------
LEMMA ClockTInv ==
  ASSUME TInv, NEW t \in Tasks, ClockStep(t)
  PROVE  StoreTypeOK'
<1> USE DEF TInv
<1>1. CASE ScheduleComesDue(t)
  BY <1>1, RowType DEF ScheduleComesDue, StoreTypeOK, Row
<1>2. CASE RetryWindowElapses(t)
  BY <1>2, RowType DEF RetryWindowElapses, StoreTypeOK, Row
<1>3. CASE UpdatedAtAges(t)
  BY <1>3, RowType DEF UpdatedAtAges, StoreTypeOK, Row
<1> QED
  BY <1>1, <1>2, <1>3 DEF ClockStep, Age

LEMMA CallTInv ==
  ASSUME TInv, NEW t \in Tasks, NEW a \in Calls, CallStep(t, a)
  PROVE  StoreTypeOK' /\ TeleTypeOK'
<1> USE DEF TInv
<1>1. CASE Answer(t, a)
  <2>1. PICK c \in {"over", "machine"} :
          call' = [call EXCEPT ![t][a].st = "live", ![t][a].cb = c]
    BY <1>1 DEF Answer
  <2>2. [call[t][a] EXCEPT !.st = "live", !.cb = c] \in CallRec
    BY CallType DEF CallRec, CallState
  <2>3. call' = [call EXCEPT ![t][a] = [call[t][a] EXCEPT !.st = "live", !.cb = c]]
    BY <2>1 DEF TeleTypeOK
  <2> QED
    BY <1>1, <2>2, <2>3, CallUpdate, Untouched DEF Answer
<1>2. CASE StreamRejected(t, a) \/ StrayEnds(t, a)
  BY <1>2, GotoUpdate, Untouched DEF StreamRejected, StrayEnds, CallState
<1>3. CASE RingOut(t, a)
  <2>1. PICK c \in {"over", "noanswer"} :
          call' = [call EXCEPT ![t][a].st = "unanswered", ![t][a].cb = c]
    BY <1>3 DEF RingOut
  <2>2. [call[t][a] EXCEPT !.st = "unanswered", !.cb = c] \in CallRec
    BY CallType DEF CallRec, CallState
  <2>3. call' = [call EXCEPT ![t][a] = [call[t][a] EXCEPT !.st = "unanswered", !.cb = c]]
    BY <2>1 DEF TeleTypeOK
  <2> QED
    BY <1>3, <2>2, <2>3, CallUpdate, Untouched DEF RingOut
<1>4. CASE BridgeEnds(t, a)
  BY <1>4, GotoUpdate, Untouched DEF BridgeEnds, CallState
<1>5. CASE FinalizeLoad(t, a)
  <2> DEFINE c == [call[t][a] EXCEPT !.st = "loaded", !.status = task[t].status,
                                     !.err = task[t].error_reason, !.sess = session[t]]
  <2>1. c \in CallRec
    BY CallType, RowType DEF CallRec, CallState, StoreTypeOK
  <2>2. call' = [call EXCEPT ![t][a] = c]
    BY <1>5 DEF FinalizeLoad, TeleTypeOK
  <2> HIDE DEF c
  <2> QED
    BY <1>5, <2>1, <2>2, CallUpdate, Untouched DEF FinalizeLoad
<1>6. CASE FinalizeSave(t, a)
  <2>1. StoreTypeOK'
    BY <1>6, CallNumbers, SessionDataUpdate DEF FinalizeSave
  <2>2. TeleTypeOK'
    BY <1>6, GotoUpdate DEF FinalizeSave, CallState
  <2> QED
    BY <2>1, <2>2
<1>7. CASE FinalizeStore(t, a)
  <2>a. PICK o \in Outcomes :
          \E e \in ErrorsOf(o, call[t][a].err, task[t].error_reason) :
            task' = [task EXCEPT ![t].status = Dirty(StatusOf(o), call[t][a].status, @),
                                 ![t].error_reason = e]
    BY <1>7 DEF FinalizeStore
  <2>1. PICK err \in ErrorsOf(o, call[t][a].err, task[t].error_reason) :
          task' = [task EXCEPT ![t].status = Dirty(StatusOf(o), call[t][a].status, @),
                               ![t].error_reason = err]
    BY <2>a
  <2>2. err \in ErrorReason
    BY RowType DEF ErrorsOf, ErrorReason, RetryableErrors
  <2>3. Dirty(StatusOf(o), call[t][a].status, task[t].status) \in TaskStatus
    BY RowType DEF Dirty, StatusOf, TaskStatus
  <2> DEFINE r == [task[t] EXCEPT
                     !.status = Dirty(StatusOf(o), call[t][a].status, task[t].status),
                     !.error_reason = err]
  <2>4. r \in Row
    BY <2>2, <2>3, RowType DEF Row
  <2>5. task' = [task EXCEPT ![t] = r]
    BY <2>1 DEF StoreTypeOK
  <2> DEFINE c == [call[t][a] EXCEPT !.st = "done", !.status = "PENDING",
                                     !.err = "none", !.sess = 0]
  <2>c. "PENDING" \in TaskStatus /\ "none" \in ErrorReason
    BY DEF TaskStatus, OpenStatus, ErrorReason
  <2>d. call[t][a] \in CallRec /\ "done" \in CallState /\ 0 \in 0..MaxAttempts
    BY CallType DEF CallState
  <2>6. c \in CallRec
    BY <2>c, <2>d DEF CallRec
  <2>b. call' = [call EXCEPT ![t][a].st = "done", ![t][a].status = "PENDING",
                             ![t][a].err = "none", ![t][a].sess = 0]
    BY <1>7 DEF FinalizeStore
  <2>7. call' = [call EXCEPT ![t][a] = c]
    BY <2>b DEF TeleTypeOK
  <2> HIDE DEF c, r
  <2> QED
    BY <1>7, <2>4, <2>5, <2>6, <2>7, RowUpdate, CallUpdate DEF FinalizeStore
<1> QED
  BY <1>1, <1>2, <1>3, <1>4, <1>5, <1>6, <1>7 DEF CallStep

LEMMA CallbackTInv ==
  ASSUME TInv, NEW t \in Tasks, NEW a \in Calls, CallbackStep(t, a)
  PROVE  StoreTypeOK' /\ TeleTypeOK'
<1> USE DEF TInv
<1>1. CASE CallbackLoad(t, a)
  <2> DEFINE c == [call[t][a] EXCEPT
        !.cb = IF task[t].status \in {"COMPLETED", "FAILED"} THEN "over" ELSE "armed",
        !.st = IF call[t][a].st = "live" THEN "closing" ELSE call[t][a].st]
  <2>1. c \in CallRec
    BY CallType DEF CallRec, CallState
  <2>2. call' = [call EXCEPT ![t][a] = c]
    BY <1>1 DEF CallbackLoad, TeleTypeOK
  <2> HIDE DEF c
  <2>3. TeleTypeOK'
    BY <2>1, <2>2, CallUpdate
  <2>4. a[1] \in Attempts
    BY CallNumbers
  <2>5. StoreTypeOK'
    BY <1>1, <2>4, SessionDataUpdate DEF CallbackLoad
  <2> QED
    BY <2>3, <2>5
<1>2. CASE CallbackStore(t, a)
  <2>1. [call[t][a] EXCEPT !.cb = "over"] \in CallRec
    BY CallType DEF CallRec
  <2>2. call' = [call EXCEPT ![t][a] = [call[t][a] EXCEPT !.cb = "over"]]
    BY <1>2 DEF CallbackStore, TeleTypeOK
  <2> QED
    BY <1>2, <2>1, <2>2, CallUpdate, FailedUpdate DEF CallbackStore, ErrorReason
<1>3. CASE EndedCallback(t, a)
  BY <1>3, CallNumbers, SessionDataUpdate, Untouched DEF EndedCallback
<1> QED
  BY <1>1, <1>2, <1>3 DEF CallbackStep

-----------------------------------------------------------------------------
LEMMA ExecutorTInv ==
  ASSUME TInv, NEW e \in Executors, ExecStep(e)
  PROVE  StoreTypeOK' /\ TeleTypeOK' /\ ExecOK'
<1> USE DEF TInv
<1> DEFINE t == exec[e].task  a == exec[e].attempt  c == CallOf(e)
<1>0. exec[e].pc # "idle" /\ t \in Tasks
  BY ExecType DEF ExecStep, Acquire, Load, Claim, Seize, Create, CreateFails, Dial, DialRaises,
     DialFails, TalkFails, TalkEnds, StoreResult, Overrule
<1>1. CASE Acquire(e)
  BY <1>1, <1>0, AdvanceUpdate, Untouched DEF Acquire
<1>2. CASE Load(e)
  <2>1. CASE Claimable(t)
    <3> DEFINE r == [exec[e] EXCEPT !.pc = IF Realtime(e) THEN "claim" ELSE "seize",
                                    !.realtime = Realtime(e)]
    <3>1. Realtime(e) \in BOOLEAN
      BY DEF Realtime
    <3>2. r \in ExecRec /\ r.task = t /\ r.pc \in {"claim", "seize"}
      BY <3>1, ExecType DEF ExecRec
    <3>3. exec' = [exec EXCEPT ![e] = r]
      BY <1>2, <2>1 DEF Load, ExecOK, ExecTypeOK
    <3> HIDE DEF r
    <3> QED
      BY <1>0, <1>2, <3>2, <3>3, ExecUpdate, Untouched DEF Load
  <2>2. CASE ~Claimable(t)
    BY <1>0, <1>2, <2>2, AdvanceUpdate, FinishUpdate, Untouched DEF Load, Refused
  <2> QED
    BY <2>1, <2>2
<1>3. CASE Claim(e)
  <2>1. StoreTypeOK'
    BY <1>0, <1>3, RowType DEF Claim, claim_for_execution, StoreTypeOK, Row, TaskStatus
  <2>2. ExecOK'
    BY <1>0, <1>3, AdvanceUpdate, FinishUpdate DEF Claim, Refused
  <2> QED
    BY <1>3, <2>1, <2>2, Untouched DEF Claim
<1>4. CASE Seize(e)
  BY <1>0, <1>4, StatusUpdate, AdvanceUpdate, Untouched DEF Seize, TaskStatus
<1>5. CASE Create(e)
  <2>1. StoreTypeOK'
    BY <1>0, <1>5, SessionDataUpdate DEF Create
  <2> DEFINE r == [exec[e] EXCEPT !.pc = "dial", !.attempt = issued[t] + 1, !.try = 1]
  <2>2. issued[t] + 1 \in Attempts /\ issued[t] + 1 \in 0..MaxAttempts /\ 1 \in Tries
        /\ 1 \in 0..MAX_CALL_RETRIES
    BY <1>0, <1>5 DEF Create, CreateSession, StoreTypeOK
  <2>3. r \in ExecRec /\ r.task = t /\ r.attempt \in Attempts /\ r.try \in Tries
    BY <2>2, ExecType DEF ExecRec
  <2>4. exec' = [exec EXCEPT ![e] = r]
    BY <1>5 DEF Create, ExecOK, ExecTypeOK
  <2> HIDE DEF r
  <2> QED
    BY <1>0, <1>5, <2>1, <2>3, <2>4, ExecUpdate, Untouched DEF Create
<1>6. CASE CreateFails(e)
  BY <1>6, FinishUpdate, Untouched DEF CreateFails
<1>7. CASE Dial(e)
  <2>0. a \in Attempts /\ exec[e].try \in Tries /\ c \in Calls
    BY <1>7, ExecType DEF Dial
  <2>1. PICK s \in {"ringing", "legacy"}, cb \in {"none"} \cup LegacyCallbacks :
          Place(t, c, s, cb, TRUE)
    BY <1>7 DEF Dial
  <2>4. TeleTypeOK'
    <3>1. s \in CallState /\ cb \in {"none", "over", "noanswer", "machine"}
      BY DEF CallState, LegacyCallbacks
    <3> DEFINE k == [call[t][c] EXCEPT !.st = s, !.cb = cb, !.sid = TRUE]
    <3>2. k \in CallRec
      BY <1>0, <2>0, <3>1, PlacedType
    <3>3. call' = [call EXCEPT ![t][c] = k]
      BY <2>1 DEF Place, TeleTypeOK
    <3> HIDE DEF k
    <3> QED
      BY <1>0, <2>0, <3>2, <3>3, CallUpdate
  <2> DEFINE r == [exec[e] EXCEPT !.pc = "talk"]
  <2>5. r \in ExecRec /\ r.task = t /\ r.attempt = a /\ r.try = exec[e].try
    BY ExecType DEF ExecRec
  <2>6. Advance(e, "talk") => exec' = [exec EXCEPT ![e] = r]
    BY DEF Advance, ExecOK, ExecTypeOK
  <2> HIDE DEF r
  <2>7. ExecOK'
    BY <1>0, <1>7, <2>0, <2>5, <2>6, ExecUpdate, FinishUpdate DEF Dial
  <2> QED
    BY <1>7, <2>4, <2>7, Untouched DEF Dial
<1>7a. CASE DialRaises(e)
  <2>1. TeleTypeOK'
    BY <1>0, <1>7a, ExecType, RaisedUpdate DEF DialRaises
  <2> DEFINE r == [exec[e] EXCEPT !.try = exec[e].try + 1]
  <2>2. exec[e].try \in Tries /\ exec[e].try + 1 \in Tries /\ a \in Attempts
    BY <1>7a, ExecType DEF DialRaises
  <2>3. r \in ExecRec /\ r.task = t /\ r.attempt = a /\ r.try \in Tries
    BY <2>2, ExecType DEF ExecRec
  <2>4. exec' = [exec EXCEPT ![e] = r]
    BY <1>7a DEF DialRaises, ExecOK, ExecTypeOK
  <2> HIDE DEF r
  <2> QED
    BY <1>0, <1>7a, <2>1, <2>2, <2>3, <2>4, ExecUpdate, Untouched DEF DialRaises
<1>s. ASSUME NEW res \in {"achieved", "plain", "network"},
             exec' = [exec EXCEPT ![e].pc = "store", ![e].result = res]
      PROVE  ExecOK'
  <2> DEFINE r == [exec[e] EXCEPT !.pc = "store", !.result = res]
  <2>1. r \in ExecRec /\ r.task = t /\ r.pc = "store"
    BY ExecType DEF ExecRec
  <2>2. exec' = [exec EXCEPT ![e] = r]
    BY <1>s DEF ExecOK, ExecTypeOK
  <2> HIDE DEF r
  <2> QED
    BY <1>0, <2>1, <2>2, ExecUpdate
<1>8. CASE DialFails(e)
  <2>1. PICK reason \in {"plain", "network"} :
          \/ SetFailed(t, reason) /\ Finish(e)
          \/ /\ exec' = [exec EXCEPT ![e].pc = "store", ![e].result = reason]
             /\ UNCHANGED task
    BY <1>8 DEF DialFails
  <2>2. ExecOK'
    BY <1>s, <2>1, FinishUpdate
  <2>3. reason \in ErrorReason /\ UNCHANGED <<session, data, issued>>
    BY <1>8 DEF DialFails, ErrorReason, RetryableErrors
  <2>4. StoreTypeOK'
    BY <1>0, <2>1, <2>3, FailedUpdate, Untouched DEF storeVars
  <2>5. TeleTypeOK'
    BY <1>0, <1>8, ExecType, RaisedUpdate DEF DialFails
  <2> QED
    BY <2>2, <2>4, <2>5
<1>8a. CASE TalkFails(e)
  <2>1. ExecOK'
    BY <1>8a, <1>s DEF TalkFails
  <2>2. TeleTypeOK'
    BY <1>0, <1>8a, ExecType, GotoUpdate DEF TalkFails, LetGo, CallState
  <2> QED
    BY <1>8a, <2>1, <2>2, Untouched DEF TalkFails
<1>9. CASE TalkEnds(e)
  <2>1. StoreTypeOK'
    <3>1. a \in Attempts
      BY <1>9, ExecType DEF TalkEnds
    <3> QED
      BY <1>0, <1>9, <3>1, SessionDataUpdate DEF TalkEnds
  <2>2. TeleTypeOK'
    BY <1>0, <1>9, ExecType, GotoUpdate DEF TalkEnds, LetGo, CallState
  <2> QED
    BY <1>9, <1>s, <2>1, <2>2, FinishUpdate DEF TalkEnds
<1>10. CASE StoreResult(e)
  <2>0. exec[e].result \in {"none", "achieved", "plain", "network"}
    BY <1>10, ExecType DEF StoreResult, ExecRec
  <2>1. exec[e].result # "achieved" => exec[e].result \in ErrorReason
    BY <2>0 DEF ErrorReason, RetryableErrors
  <2>2. StoreTypeOK'
    BY <1>0, <1>10, <2>1, FailedUpdate, StatusUpdate DEF StoreResult, TaskStatus
  <2> QED
    BY <1>10, <2>2, FinishUpdate, Untouched DEF StoreResult
<1>11. CASE Overrule(e)
  BY <1>0, <1>11, FailedUpdate, FinishUpdate, Untouched DEF Overrule, ErrorReason
<1> QED
  BY <1>1, <1>2, <1>3, <1>4, <1>5, <1>6, <1>7, <1>7a, <1>8, <1>8a, <1>9, <1>10, <1>11
  DEF ExecStep

-----------------------------------------------------------------------------
\* A background execution starts, or nobody can take it.
LEMMA SpawnUpdate ==
  ASSUME ExecOK, NEW t \in Tasks, Spawn(t)
  PROVE  ExecOK'
<1> DEFINE r == [Idle EXCEPT !.pc = "queued", !.task = t]
<1>1. r \in ExecRec /\ r.task = t /\ r.pc = "queued"
  BY IdleType DEF ExecRec
<1>2. PICK e \in Runs : exec' = [exec EXCEPT ![e] = r]
  BY DEF Spawn
<1> HIDE DEF r
<1> QED
  BY <1>1, <1>2, ExecUpdate

LEMMA StartWorkerUpdate ==
  ASSUME ExecOK, NEW t \in Tasks, StartWorker(t)
  PROVE  ExecOK'
<1> DEFINE r == [Idle EXCEPT !.pc = "load", !.task = t]
<1>1. r \in ExecRec /\ r.task = t /\ r.pc = "load"
  BY IdleType DEF ExecRec
<1>2. exec' = [exec EXCEPT ![Worker] = r]
  BY DEF StartWorker
<1> HIDE DEF r
<1> QED
  BY <1>1, <1>2, ExecUpdate

LEMMA ReqUpdate ==
  ASSUME ReqOK, NEW q \in Requests, NEW r \in ReqRec, r.pc # "idle" => r.task \in Tasks,
         req' = [req EXCEPT ![q] = r], asked' \in 0..MaxRequests
  PROVE  ReqOK'
  BY DEF ReqOK, ApiTypeOK

LEMMA ReplyUpdate ==
  ASSUME ReqOK, NEW q \in Requests, Reply(q), UNCHANGED asked
  PROVE  ReqOK'
<1>1. NoReq \in ReqRec /\ NoReq.pc = "idle" /\ asked' \in 0..MaxRequests
  BY DEF NoReq, ReqRec, TaskStatus, OpenStatus, ReqOK, ApiTypeOK
<1> QED
  BY <1>1, ReqUpdate DEF Reply

LEMMA RequestTInv ==
  ASSUME TInv, NEW q \in Requests, RequestStep(q)
  PROVE  StoreTypeOK' /\ TeleTypeOK' /\ ExecOK' /\ ReqOK'
<1> USE DEF TInv
<1> DEFINE t == req[q].task
<1>0. /\ req[q] \in ReqRec /\ t \in Tasks
      /\ asked \in 0..MaxRequests
  BY DEF ReqOK, ApiTypeOK, RequestStep, Reschedule, Unschedule, Cancel, CleanUp, Reopen
<1>1. CASE Reschedule(q) \/ Unschedule(q)
  <2>1. PICK when \in {"none", "future"}, s \in {"PENDING", "SCHEDULED"} :
          task' = [task EXCEPT ![t].scheduled_time = when,
                               ![t].status = Dirty(s, req[q].status, @)]
    BY <1>1 DEF Reschedule, Unschedule
  <2> DEFINE r == [task[t] EXCEPT !.scheduled_time = when,
                                  !.status = Dirty(s, req[q].status, task[t].status)]
  <2>2. Dirty(s, req[q].status, task[t].status) \in TaskStatus
    BY <1>0, RowType DEF Dirty, TaskStatus, OpenStatus
  <2>3. r \in Row
    BY <1>0, <2>2, RowType DEF Row
  <2>4. task' = [task EXCEPT ![t] = r]
    BY <1>0, <2>1 DEF StoreTypeOK
  <2> HIDE DEF r
  <2>5. UNCHANGED <<session, data, issued, call, exec, asked>> /\ Reply(q)
    BY <1>1 DEF Reschedule, Unschedule
  <2> QED
    BY <1>0, <2>3, <2>4, <2>5, RowUpdate, ReplyUpdate, Untouched
<1>2. CASE Cancel(q)
  BY <1>0, <1>2, FailedUpdate, ReplyUpdate, Untouched DEF Cancel, ErrorReason
<1>3. CASE CleanUp(q)
  <2> DEFINE r == [req[q] EXCEPT !.pc = "cleaned"]
  <2>1. r \in ReqRec /\ r.task = t
    BY <1>0 DEF ReqRec
  <2>2. req' = [req EXCEPT ![q] = r]
    BY <1>3 DEF CleanUp, ReqOK, ApiTypeOK
  <2> HIDE DEF r
  <2>3. StoreTypeOK'
    BY <1>0, <1>3, SessionDataUpdate DEF CleanUp
  <2> QED
    BY <1>0, <1>3, <2>1, <2>2, <2>3, ReqUpdate, Untouched DEF CleanUp
<1>4. CASE Reopen(q)
  <2> DEFINE r == [task[t] EXCEPT !.status = "PENDING", !.error_reason = "none"]
  <2>a. "PENDING" \in TaskStatus /\ "none" \in ErrorReason
    BY DEF TaskStatus, OpenStatus, ErrorReason
  <2>1. r \in Row
    BY <1>0, <2>a, RowType DEF Row
  <2>2. task' = [task EXCEPT ![t] = r]
    BY <1>0, <1>4 DEF Reopen, StoreTypeOK
  <2>3. Spawn(t) /\ Reply(q) /\ UNCHANGED <<session, data, issued, call, asked>>
    BY <1>4 DEF Reopen
  <2> HIDE DEF r
  <2>4. StoreTypeOK'
    BY <1>0, <2>1, <2>2, <2>3, RowUpdate
  <2> QED
    BY <1>0, <2>3, <2>4, SpawnUpdate, ReplyUpdate, Untouched
<1> QED
  BY <1>1, <1>2, <1>3, <1>4 DEF RequestStep

LEMMA UserTInv ==
  ASSUME TInv, UserStep
  PROVE  StoreTypeOK' /\ TeleTypeOK' /\ ExecOK' /\ ReqOK'
<1> USE DEF TInv
<1>0. Ask => asked' \in 0..MaxRequests
  BY DEF Ask, ReqOK, ApiTypeOK
<1>1. ASSUME NEW q \in Requests, NEW kind \in RequestKinds, NEW t \in Tasks,
             LoadForRequest(q, kind, t)
      PROVE  StoreTypeOK' /\ TeleTypeOK' /\ ExecOK' /\ ReqOK'
  <2> DEFINE r == [pc |-> "loaded", kind |-> kind, task |-> t, status |-> task[t].status]
  <2>1. r \in ReqRec /\ r.task = t
    BY RowType DEF ReqRec
  <2>2. req' = [req EXCEPT ![q] = r]
    BY <1>1 DEF LoadForRequest
  <2> HIDE DEF r
  <2> QED
    BY <1>0, <1>1, <2>1, <2>2, ReqUpdate, Untouched DEF LoadForRequest
<1>2. ASSUME NEW t \in Tasks, Execute(t)
      PROVE  StoreTypeOK' /\ TeleTypeOK' /\ ExecOK' /\ ReqOK'
  BY <1>0, <1>2, SpawnUpdate, Untouched DEF Execute, ReqOK, ApiTypeOK
<1> QED
  BY <1>1, <1>2 DEF UserStep

-----------------------------------------------------------------------------
LEMMA NowUpdate ==
  ASSUME NEW pc, NEW list \in SUBSET Tasks, NEW t \in Tasks \cup {None}, Now(pc, list, t),
         pc \in {"promote", "dueRun", "mark", "retryRun"} => t \in Tasks,
         pc \in {"due", "dueList", "promote", "dueRun", "windows", "retry", "retryList",
                 "mark", "retryRun", "janitor", "sweep"}
  PROVE  WorkerOK'
  BY DEF Now, WorkerOK, SchedTypeOK, WorkerRec

LEMMA NewTickUpdate == worker' = NewTick => WorkerOK'
  BY DEF NewTick, WorkerOK, SchedTypeOK, WorkerRec

LEMMA SchedulerTInv ==
  ASSUME TInv, SchedulerStep
  PROVE  StoreTypeOK' /\ TeleTypeOK' /\ ExecOK' /\ WorkerOK'
<1> USE DEF TInv
<1>0. /\ worker.list \in SUBSET Tasks
      /\ worker.pc \in {"promote", "dueRun", "mark", "retryRun"} => worker.task \in Tasks
  BY DEF WorkerOK, SchedTypeOK, WorkerRec
<1>1. CASE GetDueTasks
  BY <1>1, NowUpdate, Untouched DEF GetDueTasks
<1>2. CASE TakeDue
  BY <1>0, <1>2, NowUpdate, StartWorkerUpdate, Untouched DEF TakeDue
<1>3. CASE Promote
  BY <1>0, <1>3, NowUpdate, StartWorkerUpdate, StatusUpdate, Untouched
  DEF Promote, TaskStatus, OpenStatus
<1>4. CASE ScheduleRetryWindows
  <2>1. StoreTypeOK'
    BY <1>4 DEF ScheduleRetryWindows, StoreTypeOK, Row
  <2> QED
    BY <1>4, <2>1, NowUpdate, Untouched DEF ScheduleRetryWindows
<1>5. CASE GetRetryableFailedTasks
  BY <1>5, NowUpdate, Untouched DEF GetRetryableFailedTasks
<1>6. CASE TakeRetryable
  BY <1>0, <1>6, NowUpdate, StartWorkerUpdate, Untouched DEF TakeRetryable
<1>7. CASE MarkForRetry
  <2> DEFINE t == worker.task
             r == [task[t] EXCEPT !.status = "PENDING", !.retry_count = task[t].retry_count + 1,
                                  !.next_retry_at = "none"]
  <2>1. t \in Tasks
    BY <1>0, <1>7 DEF MarkForRetry
  <2>2. task[t] \in Row /\ task[t].retry_count + 1 \in Nat
    BY <2>1, RowType
  <2>3. r \in Row
    BY <2>2 DEF Row, TaskStatus, OpenStatus
  <2>4. task' = [task EXCEPT ![t] = r]
    BY <1>7, <2>1 DEF MarkForRetry, StoreTypeOK
  <2> HIDE DEF r
  <2>5. StoreTypeOK'
    BY <1>7, <2>1, <2>3, <2>4, RowUpdate DEF MarkForRetry
  <2> QED
    BY <1>0, <1>7, <2>1, <2>5, NowUpdate, StartWorkerUpdate, Untouched DEF MarkForRetry
<1>8. CASE ExecutionReturns
  BY <1>0, <1>8, NowUpdate, Untouched DEF ExecutionReturns
<1>9. CASE FindStuck
  BY <1>9, NewTickUpdate, Untouched DEF FindStuck, WorkerOK, SchedTypeOK, WorkerRec
<1>10. CASE FailStuck
  <2>a. ASSUME NEW t \in Tasks
        PROVE  [task[t] EXCEPT !.status = "FAILED",
                  !.error_reason = IF t \in worker.blank THEN "network" ELSE @] \in Row
    BY RowType DEF Row, TaskStatus, ErrorReason, RetryableErrors
  <2>1. StoreTypeOK'
    BY <1>10, <2>a DEF FailStuck, StoreTypeOK
  <2> QED
    BY <1>10, <2>1, NewTickUpdate, Untouched DEF FailStuck
<1> QED
  BY <1>1, <1>2, <1>3, <1>4, <1>5, <1>6, <1>7, <1>8, <1>9, <1>10 DEF SchedulerStep

-----------------------------------------------------------------------------
LEMMA OrphanType ==
  ASSUME NEW k \in CallRec
  PROVE  Orphan(k) \in CallRec
<1>1. {"lost", "stray"} \subseteq CallState /\ "PENDING" \in TaskStatus /\ "none" \in ErrorReason
  BY DEF CallState, TaskStatus, OpenStatus, ErrorReason
<1>2. 0 \in 0..MaxAttempts
  OBVIOUS
<1> QED
  BY <1>1, <1>2 DEF Orphan, CallRec

LEMMA ApiCrashTInv ==
  ASSUME TInv, ApiCrash
  PROVE  TInv'
<1> USE DEF TInv
<1>1. TeleTypeOK'
  <2> DEFINE k(t, a) == [call[t][a] EXCEPT !.cb = IF @ = "armed" THEN "over" ELSE @]
             n(t, a) == IF \/ k(t, a).st \in {"live", "closing", "loaded", "saved"}
                           \/ DrivenBy(Runs, t, a)
                          THEN Orphan(k(t, a)) ELSE k(t, a)
  <2>1. call' = [t \in Tasks |-> [a \in Calls |-> n(t, a)]]
    BY DEF ApiCrash
  <2>2. ASSUME NEW t \in Tasks, NEW a \in Calls
        PROVE  k(t, a) \in CallRec
    BY CallType DEF CallRec
  <2> HIDE DEF k
  <2>3. ASSUME NEW t \in Tasks, NEW a \in Calls
        PROVE  n(t, a) \in CallRec
    BY <2>2, OrphanType
  <2> HIDE DEF n
  <2> QED
    BY <2>1, <2>3 DEF TeleTypeOK
<1>2. ExecOK'
  BY DEF ApiCrash, ExecOK, ExecTypeOK, ExecRec, Idle
<1>3. ReqOK'
  BY DEF ApiCrash, ReqOK, ApiTypeOK, NoReq, ReqRec, TaskStatus, OpenStatus
<1>4. crashes' \in 0..MaxCrashes
  BY DEF ApiCrash, Crash
<1> QED
  BY <1>1, <1>2, <1>3, <1>4, Untouched DEF ApiCrash

LEMMA WorkerCrashTInv ==
  ASSUME TInv, WorkerCrash
  PROVE  TInv'
<1> USE DEF TInv
<1>1. TeleTypeOK'
  BY CallType, OrphanType DEF WorkerCrash, TeleTypeOK
<1>2. ExecOK'
  BY DEF WorkerCrash, ExecOK, ExecTypeOK, ExecRec, Idle
<1>3. crashes' \in 0..MaxCrashes
  BY DEF WorkerCrash, Crash
<1> QED
  BY <1>1, <1>2, <1>3, NewTickUpdate, Untouched DEF WorkerCrash

-----------------------------------------------------------------------------
LEMMA NextTInv == TInv /\ [Next]_vars => TInv'
<1> SUFFICES ASSUME TInv, [Next]_vars
             PROVE  TInv'
  OBVIOUS
<1>1. ASSUME NEW t \in Tasks, ClockStep(t)
      PROVE  TInv'
  BY <1>1, ClockTInv, Untouched DEF TInv, ClockStep
<1>2. ASSUME NEW t \in Tasks, NEW a \in Calls, Telephone(t, a) \/ Callback(t, a)
      PROVE  TInv'
  BY <1>2, CallTInv, CallbackTInv, Untouched DEF TInv, Telephone, Callback
<1>3. ASSUME NEW e \in Executors, Executor(e)
      PROVE  TInv'
  BY <1>3, ExecutorTInv, Untouched DEF TInv, Executor
<1>4. ASSUME NEW q \in Requests, Request(q)
      PROVE  TInv'
  BY <1>4, RequestTInv, Untouched DEF TInv, Request
<1>5. CASE User
  BY <1>5, UserTInv, Untouched DEF TInv, User
<1>6. CASE Poll
  BY <1>6, SchedulerTInv, Untouched DEF TInv, Poll
<1>7. CASE ApiCrash
  BY <1>7, ApiCrashTInv
<1>8. CASE WorkerCrash
  BY <1>8, WorkerCrashTInv
<1>9. CASE UNCHANGED vars
  BY <1>9, Untouched DEF TInv, vars, teleVars, schedVars
<1> QED
  BY <1>1, <1>2, <1>3, <1>4, <1>5, <1>6, <1>7, <1>8, <1>9 DEF Next

\* The variables keep their types in every run of the two processes: rows stay
\* rows, an executor that dials holds a real attempt, and the worker a real task.
THEOREM TypeCorrect == Spec => []TypeOK
<1>1. TInv => TypeOK
  BY DEF TInv, TypeOK, ExecOK, ReqOK, WorkerOK
<1> QED
  BY <1>1, InitTInv, NextTInv, PTL DEF Spec
=============================================================================
