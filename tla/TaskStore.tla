------------------------------ MODULE TaskStore ------------------------------
(***************************************************************************)
(* The database rows the API process and the worker process share: one     *)
(* `task` row per task and at most one `call_session` row per task         *)
(* (call_session.task_id is UNIQUE).  Every other module reads and writes  *)
(* the system through this state.                                          *)
(*                                                                         *)
(* How a write is modelled.  The ORM sessions are opened with              *)
(* expire_on_commit=False and the database runs at READ COMMITTED, so a    *)
(* handler is a load step, which copies what it decides on, and later      *)
(* commit steps.  A commit is an UPDATE ... WHERE id that sends only the   *)
(* columns whose value differs from the LOADED one and tests nothing about *)
(* the row: whatever another process wrote since the load is overwritten   *)
(* (see Dirty).  The one exception is claim_for_execution, a conditional   *)
(* UPDATE.                                                                 *)
(*                                                                         *)
(* Times are classified, not counted: scheduled_time is null, in the       *)
(* future or due; next_retry_at is null, still waiting or elapsed;         *)
(* updated_at is newer ("fresh") or older ("old") than the janitor's       *)
(* cutoff of MAX_IN_PROGRESS_MINUTES.  An error_reason is the class the    *)
(* code tells apart: retryable by keyword ("network"), tagged              *)
(* REALTIME_INIT_FAILED ("init", also retryable), "Cancelled by user"      *)
(* ("cancelled"), or any other text ("plain").                             *)
(***************************************************************************)
EXTENDS Integers, FiniteSets

CONSTANTS
  Tasks,               \* the task ids
  CreatedWith,         \* scheduled_time of the tasks at hand: "none", "future"
  MaxAttempts,         \* bound: call_session rows ever created per task
  MAX_RETRY_ATTEMPTS   \* scheduler/service.py

ASSUME TaskStoreAssumption ==
  /\ CreatedWith \subseteq {"none", "future"}
  /\ MaxAttempts \in Nat \ {0}
  /\ MAX_RETRY_ATTEMPTS \in Nat

VARIABLES
  task,     \* task[t]    : the task row
  session,  \* session[t] : 0, or which attempt's call_session row exists
  data,     \* data[t]    : the attempts whose transcript, duration, tokens or
            \*              recording have been written into that row
  issued    \* issued[t]  : history, how many call_session rows were created

storeVars == <<task, session, data, issued>>

Attempts == 1..MaxAttempts

OpenStatus == {"PENDING", "SCHEDULED"}
TaskStatus == OpenStatus \cup {"IN_PROGRESS", "COMPLETED", "FAILED", "DEFERRED"}
Terminal   == {"COMPLETED", "FAILED", "DEFERRED"}

RetryableErrors == {"network", "init"}
ErrorReason == RetryableErrors \cup {"none", "plain", "cancelled"}

Row == [status : TaskStatus,
        scheduled_time : {"none", "future", "due"},
        error_reason : ErrorReason,
        retry_count : Nat,
        next_retry_at : {"none", "waiting", "elapsed"},
        updated_at : {"fresh", "old"}]

StoreTypeOK ==
  /\ task \in [Tasks -> Row]
  /\ session \in [Tasks -> 0..MaxAttempts]
  /\ data \in [Tasks -> SUBSET Attempts]
  /\ issued \in [Tasks -> 0..MaxAttempts]

-----------------------------------------------------------------------------
(* Creation *)

\* create_task: SCHEDULED exactly when a scheduled_time was given.
NewRow(when) ==
  [status |-> IF when = "none" THEN "PENDING" ELSE "SCHEDULED",
   scheduled_time |-> when,
   error_reason |-> "none", retry_count |-> 0, next_retry_at |-> "none",
   updated_at |-> "fresh"]

StoreInit ==
  /\ task \in [Tasks -> {NewRow(when) : when \in CreatedWith}]
  /\ session = [t \in Tasks |-> 0]
  /\ data    = [t \in Tasks |-> {}]
  /\ issued  = [t \in Tasks |-> 0]

-----------------------------------------------------------------------------
(* What an UPDATE does *)

\* A column assigned `new` by code that had loaded `loaded`: the UPDATE names
\* the column only if the two differ, otherwise the stored value stays.
Dirty(new, loaded, stored) == IF new = loaded THEN stored ELSE new

\* Columns a commit sets on every path that calls it, whatever the row holds.
SetStatus(t, s) == task' = [task EXCEPT ![t].status = s]

SetFailed(t, reason) ==
  task' = [task EXCEPT ![t].status = "FAILED", ![t].error_reason = reason]

Claimable(t) == task[t].status \in OpenStatus

\* Mutant: the claim without its updated_at stamp.
claim_without_stamp(t) ==
  task' = IF Claimable(t) THEN [task EXCEPT ![t].status = "IN_PROGRESS"] ELSE task

\* UPDATE task SET status = IN_PROGRESS, updated_at = now
\*  WHERE id = :id AND status IN (PENDING, SCHEDULED)
\* The caller learns whether it won from the row count.
claim_for_execution(t) ==
  task' = IF Claimable(t)
            THEN [task EXCEPT ![t].status = "IN_PROGRESS", ![t].updated_at = "fresh"]
            ELSE task

\* Mutant: call_session.task_id without its UNIQUE constraint.
SessionNotUnique(t) == TRUE

\* INSERT INTO call_session: refused by UNIQUE(task_id) while a row exists.
SessionFree(t) == session[t] = 0

CreateSession(t) ==
  /\ issued[t] < MaxAttempts
  /\ issued'  = [issued EXCEPT ![t] = @ + 1]
  /\ session' = [session EXCEPT ![t] = issued[t] + 1]
  /\ UNCHANGED data

\* Deleting the log lines and then the call_session row of a task.
DeleteSession(t) ==
  /\ session' = [session EXCEPT ![t] = 0]
  /\ data'    = [data EXCEPT ![t] = {}]
  /\ UNCHANGED issued

\* Attempt a's call writes its data into whatever row the task has.
WriteSession(t, a) == data' = [data EXCEPT ![t] = @ \cup {a}]

-----------------------------------------------------------------------------
(* The clock *)

\* scheduled_time passes.
ScheduleComesDue(t) ==
  /\ task[t].scheduled_time = "future"
  /\ task' = [task EXCEPT ![t].scheduled_time = "due"]
  /\ UNCHANGED <<session, data, issued>>

\* next_retry_at passes.
RetryWindowElapses(t) ==
  /\ task[t].next_retry_at = "waiting"
  /\ task' = [task EXCEPT ![t].next_retry_at = "elapsed"]
  /\ UNCHANGED <<session, data, issued>>

\* updated_at falls behind the janitor's cutoff.
UpdatedAtAges(t) ==
  /\ task[t].updated_at = "fresh"
  /\ task' = [task EXCEPT ![t].updated_at = "old"]
  /\ UNCHANGED <<session, data, issued>>
=============================================================================
