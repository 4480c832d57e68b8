------------------------------ MODULE Scheduler ------------------------------
(***************************************************************************)
(* The worker process: run_scheduler's polling loop (scheduler/service.py).*)
(* A tick selects the due tasks and handles them one after the other, sets *)
(* the backoff windows of freshly failed tasks, selects the retryable ones *)
(* and handles them one after the other, and fails the tasks that have     *)
(* been IN_PROGRESS too long.  A selected list is not looked at again:     *)
(* what the tasks have become when their turn comes is only what           *)
(* transition_task, mark_task_for_retry and execute_due_task test.         *)
(***************************************************************************)
EXTENDS CallExecution

VARIABLE worker

schedVars == <<worker>>

(* pc: due, windows, retry, janitor: about to run that part of the tick;
   dueList, retryList: about to take the next task of the list;
   promote, mark: transition_task / mark_task_for_retry has loaded its task
   and will commit; dueRun, retryRun: execute_due_task is running;
   sweep: the janitor has loaded the stuck tasks. *)
WorkerRec ==
  [pc : {"due", "dueList", "promote", "dueRun", "windows", "retry", "retryList",
         "mark", "retryRun", "janitor", "sweep"},
   list : SUBSET Tasks,            \* tasks still to handle, or stuck
   blank : SUBSET Tasks,           \* the stuck ones loaded without an error
   task : Tasks \cup {None}]       \* the one in hand

SchedTypeOK == worker \in WorkerRec

NewTick == [pc |-> "due", list |-> {}, blank |-> {}, task |-> None]

SchedInit == worker = NewTick

Now(pc, list, t) == worker' = [pc |-> pc, list |-> list, blank |-> {}, task |-> t]

\* Mutant: one retry too many.
RetryableOnceMore(t) ==
  /\ task[t].status = "FAILED"
  /\ task[t].error_reason \in RetryableErrors
  /\ task[t].retry_count <= MAX_RETRY_ATTEMPTS

Retryable(t) ==
  /\ task[t].status = "FAILED"
  /\ task[t].error_reason \in RetryableErrors
  /\ task[t].retry_count < MAX_RETRY_ATTEMPTS

-----------------------------------------------------------------------------
(* _process_due_tasks *)

\* Mutant: the comparison with now the wrong way round.
GetFutureTasks ==
  /\ worker.pc = "due"
  /\ Now("dueList",
         {t \in Tasks : task[t].status = "SCHEDULED" /\ task[t].scheduled_time = "future"},
         None)
  /\ UNCHANGED <<storeVars, call, exec>>

\* get_due_tasks
GetDueTasks ==
  /\ worker.pc = "due"
  /\ Now("dueList",
         {t \in Tasks : task[t].status = "SCHEDULED" /\ task[t].scheduled_time = "due"},
         None)
  /\ UNCHANGED <<storeVars, call, exec>>

\* transition_task loads the task: only its status is tested.  Executing it
\* does not depend on the answer.
TakeDue ==
  /\ worker.pc = "dueList"
  /\ \/ \E t \in worker.list :
          IF task[t].status = "SCHEDULED"
            THEN Now("promote", worker.list \ {t}, t) /\ UNCHANGED exec
            ELSE Now("dueRun", worker.list \ {t}, t) /\ StartWorker(t)
     \/ worker.list = {} /\ Now("windows", {}, None) /\ UNCHANGED exec
  /\ UNCHANGED <<storeVars, call>>

\* transition_task commits PENDING.
Promote ==
  /\ worker.pc = "promote"
  /\ SetStatus(worker.task, "PENDING")
  /\ Now("dueRun", worker.list, worker.task)
  /\ StartWorker(worker.task)
  /\ UNCHANGED <<session, data, issued, call>>

-----------------------------------------------------------------------------
(* _process_retryable_tasks *)

\* _schedule_new_retry_windows with schedule_next_retry for every fresh
\* retryable failure; only this pass and `mark` write next_retry_at.
ScheduleRetryWindows ==
  /\ worker.pc = "windows"
  /\ task' = [t \in Tasks |->
                IF Retryable(t) /\ task[t].next_retry_at = "none"
                  THEN [task[t] EXCEPT !.next_retry_at = "waiting"]
                  ELSE task[t]]
  /\ Now("retry", {}, None)
  /\ UNCHANGED <<session, data, issued, call, exec>>

\* Mutant: the list without the test of the count.
GetFailedTasksUncounted ==
  /\ worker.pc = "retry"
  /\ Now("retryList",
         {t \in Tasks : /\ task[t].status = "FAILED"
                        /\ task[t].error_reason \in RetryableErrors
                        /\ task[t].next_retry_at # "waiting"}, None)
  /\ UNCHANGED <<storeVars, call, exec>>

\* Mutant: the list without the tasks whose window has elapsed.
GetUnscheduledFailedTasks ==
  /\ worker.pc = "retry"
  /\ Now("retryList",
         {t \in Tasks : Retryable(t) /\ task[t].next_retry_at = "none"}, None)
  /\ UNCHANGED <<storeVars, call, exec>>

\* get_retryable_failed_tasks: a missing next_retry_at counts as elapsed.
GetRetryableFailedTasks ==
  /\ worker.pc = "retry"
  /\ Now("retryList",
         {t \in Tasks : Retryable(t) /\ task[t].next_retry_at # "waiting"}, None)
  /\ UNCHANGED <<storeVars, call, exec>>

\* mark_task_for_retry loads the task; again it is executed either way.
TakeRetryable ==
  /\ worker.pc = "retryList"
  /\ \/ \E t \in worker.list :
          IF task[t].status = "FAILED"
            THEN Now("mark", worker.list \ {t}, t) /\ UNCHANGED exec
            ELSE Now("retryRun", worker.list \ {t}, t) /\ StartWorker(t)
     \/ worker.list = {} /\ Now("janitor", {}, None) /\ UNCHANGED exec
  /\ UNCHANGED <<storeVars, call>>

\* mark_task_for_retry commits.  The error_reason is kept, and so is the
\* call_session of the failed attempt.
MarkForRetry ==
  LET t == worker.task IN
  /\ worker.pc = "mark"
  /\ task' = [task EXCEPT ![t].status = "PENDING", ![t].retry_count = @ + 1,
                          ![t].next_retry_at = "none"]
  /\ Now("retryRun", worker.list, t)
  /\ StartWorker(t)
  /\ UNCHANGED <<session, data, issued, call>>

\* execute_due_task returned.
ExecutionReturns ==
  /\ worker.pc \in {"dueRun", "retryRun"}
  /\ exec[Worker].pc = "idle"
  /\ Now(IF worker.pc = "dueRun" THEN "dueList" ELSE "retryList", worker.list, None)
  /\ UNCHANGED <<storeVars, call, exec>>

-----------------------------------------------------------------------------
(* _process_stuck_in_progress_tasks *)

\* Mutant: the janitor overlooks a task that still carries an earlier error.
StuckWithoutError(t) ==
  task[t].status = "IN_PROGRESS" /\ task[t].updated_at = "old" /\ task[t].error_reason = "none"

Stuck(t) == task[t].status = "IN_PROGRESS" /\ task[t].updated_at = "old"

FindStuck ==
  /\ worker.pc = "janitor"
  /\ LET stuck == {t \in Tasks : Stuck(t)} IN
       worker' = IF stuck = {} THEN NewTick
                 ELSE [pc |-> "sweep", list |-> stuck, task |-> None,
                       blank |-> {t \in stuck : task[t].error_reason = "none"}]
  /\ UNCHANGED <<storeVars, call, exec>>

\* The message given to a task loaded without an error mentions a network
\* failure and is therefore retryable; where an error was loaded the column is
\* not written.
FailStuck ==
  /\ worker.pc = "sweep"
  /\ task' = [t \in Tasks |->
                IF t \in worker.list
                  THEN [task[t] EXCEPT !.status = "FAILED",
                          !.error_reason = IF t \in worker.blank THEN "network" ELSE @]
                  ELSE task[t]]
  /\ worker' = NewTick
  /\ UNCHANGED <<session, data, issued, call, exec>>

SchedulerStep ==
  \/ GetDueTasks
  \/ TakeDue
  \/ Promote
  \/ ScheduleRetryWindows
  \/ GetRetryableFailedTasks
  \/ TakeRetryable
  \/ MarkForRetry
  \/ ExecutionReturns
  \/ FindStuck
  \/ FailStuck
=============================================================================
