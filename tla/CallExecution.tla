---------------------------- MODULE CallExecution ----------------------------
(***************************************************************************)
(* The executors: code that takes an open task and places its call.  The   *)
(* API process runs _run_call_in_background coroutines, any number of      *)
(* them, behind a process-local semaphore; the worker process runs         *)
(* execute_due_task, one at a time.  Both call execute_task of the         *)
(* realtime manager (claim, create the call_session, dial, return) or of   *)
(* the legacy manager (overwrite the status, create the call_session,      *)
(* dial, talk to the end, store the result).                               *)
(***************************************************************************)
EXTENDS Telephony

CONSTANTS
  Runs,                  \* bound: concurrent _run_call_in_background coroutines
  Worker,                \* the worker's executor
  USE_REALTIME_API,
  MAX_CONCURRENT_CALLS,
  None

ASSUME ExecutionAssumption ==
  /\ Worker \notin Runs
  /\ USE_REALTIME_API \in BOOLEAN
  /\ MAX_CONCURRENT_CALLS \in Nat \ {0}
  /\ None \notin Tasks

VARIABLE exec

Executors == Runs \cup {Worker}

(* pc: idle; queued (for the semaphore); load (first SELECT and guard);
   claim (realtime claim_for_execution) or seize (legacy status write);
   create (INSERT call_session); dial; talk (legacy dialog); store (legacy
   result); overrule (the worker's except-branch marking the task FAILED). *)
ExecRec ==
  [pc : {"idle", "queued", "load", "claim", "seize", "create", "dial", "talk",
         "store", "overrule"},
   task : Tasks \cup {None},
   attempt : 0..MaxAttempts,      \* the call_session it created
   try : 0..MAX_CALL_RETRIES,     \* of calls.create
   realtime : BOOLEAN,
   result : {"none", "achieved", "plain", "network"}]

Idle == [pc |-> "idle", task |-> None, attempt |-> 0, try |-> 0,
         realtime |-> FALSE, result |-> "none"]

ExecTypeOK == exec \in [Executors -> ExecRec]

ExecInit == exec = [e \in Executors |-> Idle]

\* What calls.create may come with: on the legacy path the callee's machine or
\* absence is reported by callback while the executor polls.
LegacyCallbacks == {"over"} \cup CallbackKinds

\* The call the executor's current try places.
CallOf(e) == <<exec[e].attempt, exec[e].try>>

Advance(e, pc) == exec' = [exec EXCEPT ![e].pc = pc]
Finish(e)      == exec' = [exec EXCEPT ![e] = Idle]

\* Coroutines inside `async with semaphore`.
Holders == {r \in Runs : exec[r].pc \notin {"idle", "queued"}}

\* asyncio.create_task(_run_call_in_background(t)), for the request handlers.
Spawn(t) ==
  \E r \in Runs :
    /\ exec[r].pc = "idle"
    /\ exec' = [exec EXCEPT ![r] = [Idle EXCEPT !.pc = "queued", !.task = t]]

\* execute_due_task(t): the worker's own semaphore is never contended, its
\* executions follow one another.
StartWorker(t) ==
  exec' = [exec EXCEPT ![Worker] = [Idle EXCEPT !.pc = "load", !.task = t]]

-----------------------------------------------------------------------------
\* Enter the semaphore.
Acquire(e) ==
  /\ exec[e].pc = "queued"
  /\ Cardinality(Holders) < MAX_CONCURRENT_CALLS
  /\ Advance(e, "load")
  /\ UNCHANGED <<storeVars, call>>

\* The worker forces the legacy path after a realtime init failure, the API's
\* coroutine does not look.
Realtime(e) ==
  /\ USE_REALTIME_API
  /\ e = Worker => task[exec[e].task].error_reason # "init"

\* execute_task raised on what it loaded.  The API's coroutine logs it.  The
\* worker tests the status it loaded and sets out to mark the task FAILED.
Refused(e, loaded) ==
  IF e = Worker /\ loaded \notin {"COMPLETED", "FAILED"}
    THEN Advance(e, "overrule")
    ELSE Finish(e)

\* Load the task and test that it is open.
Load(e) ==
  LET t == exec[e].task IN
  /\ exec[e].pc = "load"
  /\ IF Claimable(t)
       THEN exec' = [exec EXCEPT ![e].pc = IF Realtime(e) THEN "claim" ELSE "seize",
                                 ![e].realtime = Realtime(e)]
       ELSE Refused(e, task[t].status)
  /\ UNCHANGED <<storeVars, call>>

\* Mutant: the claim as a plain status write, like the legacy path's.
ClaimUnconditionally(e) ==
  /\ exec[e].pc = "claim"
  /\ task' = [task EXCEPT ![exec[e].task].status = "IN_PROGRESS",
                          ![exec[e].task].updated_at = "fresh"]
  /\ Advance(e, "create")
  /\ UNCHANGED <<session, data, issued, call>>

\* Realtime: the conditional UPDATE.  The ORM sets the loaded instance to
\* IN_PROGRESS whether or not a row matched, which is what a losing worker
\* then tests.
Claim(e) ==
  LET t == exec[e].task IN
  /\ exec[e].pc = "claim"
  /\ claim_for_execution(t)
  /\ IF Claimable(t) THEN Advance(e, "create") ELSE Refused(e, "IN_PROGRESS")
  /\ UNCHANGED <<session, data, issued, call>>

\* Legacy: set IN_PROGRESS and commit, whatever the row holds by now.
Seize(e) ==
  /\ exec[e].pc = "seize"
  /\ SetStatus(exec[e].task, "IN_PROGRESS")
  /\ Advance(e, "create")
  /\ UNCHANGED <<session, data, issued, call>>

\* Create the call_session.
Create(e) ==
  LET t == exec[e].task IN
  /\ exec[e].pc = "create"
  /\ SessionFree(t)
  /\ CreateSession(t)
  /\ exec' = [exec EXCEPT ![e].pc = "dial", ![e].attempt = issued[t] + 1, ![e].try = 1]
  /\ UNCHANGED <<task, call>>

\* The INSERT violates UNIQUE(task_id).  The exception leaves the ORM session
\* unusable: the worker's except-branch fails as well, so nobody touches the
\* task, which stays IN_PROGRESS.
CreateFails(e) ==
  /\ exec[e].pc = "create"
  /\ ~SessionFree(exec[e].task)
  /\ Finish(e)
  /\ UNCHANGED <<storeVars, call>>

\* Twilio places the call and answers with its SID.  A realtime executor is then
\* done (and leaves the semaphore); a legacy one goes on to talk.
Dial(e) ==
  LET t == exec[e].task  c == CallOf(e) IN
  /\ exec[e].pc = "dial"
  /\ IF exec[e].realtime
       THEN Place(t, c, "ringing", "none", TRUE) /\ Finish(e)
       ELSE /\ \E cb \in LegacyCallbacks : Place(t, c, "legacy", cb, TRUE)
            /\ Advance(e, "talk")
  /\ UNCHANGED storeVars

\* calls.create raises.  If only Twilio's answer was lost the call rings, with
\* nobody who knows of it: its media stream serves a realtime call like any
\* other of the task, a legacy call has no one to talk.
TryRaises(e) ==
  LET t == exec[e].task  c == CallOf(e) IN
  \/ UNCHANGED call
  \/ /\ RepliesMayBeLost
     /\ IF exec[e].realtime
          THEN Place(t, c, "ringing", "none", FALSE)
          ELSE \E cb \in LegacyCallbacks : Place(t, c, "stray", cb, FALSE)

\* Mutant: the loop goes on after calls.create has returned.
DialGoesOn(e) ==
  /\ exec[e].pc = "dial" /\ exec[e].try < MAX_CALL_RETRIES
  /\ \E cb \in LegacyCallbacks : Place(exec[e].task, CallOf(e), "stray", cb, TRUE)
  /\ exec' = [exec EXCEPT ![e].try = @ + 1]
  /\ UNCHANGED storeVars

\* initiate_call tries again.
DialRaises(e) ==
  /\ exec[e].pc = "dial" /\ exec[e].try < MAX_CALL_RETRIES
  /\ TryRaises(e)
  /\ exec' = [exec EXCEPT ![e].try = @ + 1]
  /\ UNCHANGED storeVars

\* The last try raises and initiate_call gives up.  Realtime stores FAILED at
\* once; legacy falls into its except-branch.
DialFails(e) ==
  /\ exec[e].pc = "dial" /\ exec[e].try = MAX_CALL_RETRIES
  /\ TryRaises(e)
  /\ \E reason \in {"plain", "network"} :
       IF exec[e].realtime
         THEN SetFailed(exec[e].task, reason) /\ Finish(e)
         ELSE /\ exec' = [exec EXCEPT ![e].pc = "store", ![e].result = reason]
              /\ UNCHANGED task
  /\ UNCHANGED <<session, data, issued>>

\* Legacy: nobody talks on the call any more.  It is down, or, where nobody hung
\* up or the hang-up failed, still connected.
LetGo(e) == \E st \in {"done", "stray"} : Goto(exec[e].task, CallOf(e), st)

\* Legacy: the dialog raises (not answered in time, Twilio or OpenAI error, also
\* in the steps after the hang-up).  The except-branch does not hang up.
TalkFails(e) ==
  /\ exec[e].pc = "talk"
  /\ \E reason \in {"plain", "network"} :
       exec' = [exec EXCEPT ![e].pc = "store", ![e].result = reason]
  /\ LetGo(e)
  /\ UNCHANGED storeVars

\* Legacy: the dialog ends; hang up, store duration and recording in the
\* call_session.  If that row was deleted the flush raises, and the except-
\* branch cannot store the failure in the same ORM session either.
TalkEnds(e) ==
  LET t == exec[e].task  a == exec[e].attempt IN
  /\ exec[e].pc = "talk"
  /\ \/ /\ session[t] = a
        /\ WriteSession(t, a)
        /\ \E r \in {"achieved", "plain"} :
             exec' = [exec EXCEPT ![e].pc = "store", ![e].result = r]
     \/ /\ session[t] # a
        /\ Finish(e)
        /\ UNCHANGED data
  /\ LetGo(e)
  /\ UNCHANGED <<task, session, issued>>

\* Legacy: the result, the log lines, post-call processing.
StoreResult(e) ==
  LET t == exec[e].task IN
  /\ exec[e].pc = "store"
  /\ IF exec[e].result = "achieved"
       THEN SetStatus(t, "COMPLETED")
       ELSE SetFailed(t, exec[e].result)
  /\ Finish(e)
  /\ UNCHANGED <<session, data, issued, call>>

\* execute_due_task's except-branch: the task is selected again, but the ORM
\* session returns the instance it already holds, so FAILED is written over
\* whatever the row says by now.
Overrule(e) ==
  /\ exec[e].pc = "overrule"
  /\ SetFailed(exec[e].task, "plain")
  /\ Finish(e)
  /\ UNCHANGED <<session, data, issued, call>>

ExecStep(e) ==
  \/ Acquire(e)
  \/ Load(e)
  \/ Claim(e)
  \/ Seize(e)
  \/ Create(e)
  \/ CreateFails(e)
  \/ Dial(e)
  \/ DialRaises(e)
  \/ DialFails(e)
  \/ TalkFails(e)
  \/ TalkEnds(e)
  \/ StoreResult(e)
  \/ Overrule(e)

\* A task whose execution is under way: claimed and not yet dialled, or with a
\* realtime call or legacy dialog that will still be finished.
InFlight(t) ==
  \/ \E e \in Executors :
       exec[e].task = t /\ exec[e].pc \in {"create", "dial", "talk", "store"}
  \/ \E c \in Calls : RealtimeInFlight(t, c)
=============================================================================
