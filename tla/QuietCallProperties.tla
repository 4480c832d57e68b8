------------------------- MODULE QuietCallProperties -------------------------
(***************************************************************************)
(* What the running system is supposed to do.  The first part holds; the   *)
(* second part states what the repository says of the program and the      *)
(* code does not keep (each with the run that refutes it).                 *)
(***************************************************************************)
EXTENDS QuietCall

-----------------------------------------------------------------------------
(* Held *)

Ledger == INSTANCE CallLedger WITH
  standing  <- session,
  opened    <- issued,
  placed    <- [t \in Tasks |-> {c \in Calls : call[t][c].st # "none"}],
  confirmed <- [t \in Tasks |-> {c \in Calls : call[t][c].sid}]

\* However executions, retries, cleanups, callbacks, lost answers of Twilio and
\* crashes interleave, the calls placed for a task follow the attempt ledger:
\* one call_session row at a time, a new one only after a manual retry deleted
\* the old, and for a row no further call once calls.create has returned one.
\* It is UNIQUE(task_id) on call_session, not the claim, that this rests on; a
\* call whose answer was lost may ring beside the next try's.
ImplementsLedger == Ledger!LedgerSpec

\* The worker never grants a task more than MAX_RETRY_ATTEMPTS automatic
\* retries, although mark_task_for_retry does not look at the count again after
\* the list was selected.
RetryBound == \A t \in Tasks : task[t].retry_count <= MAX_RETRY_ATTEMPTS

\* What RetryBound rests on: the count of a task that is about to be marked,
\* or waits in the retry list, is still below the limit, because nobody but
\* the one worker raises it and a list names a task once.
RetryListFresh ==
  \A t \in Tasks :
    \/ worker.pc \in {"retryList", "retryRun"} /\ t \in worker.list
    \/ worker.pc = "mark" /\ (t \in worker.list \/ t = worker.task)
    => task[t].retry_count < MAX_RETRY_ATTEMPTS

\* While an executor is between its claim and its dial nobody else is for the
\* same task: claim_for_execution lets one of several clicks through.  (For
\* tasks without a scheduled_time, whose status neither transition_task nor an
\* edit writes, as long as no manual retry overlaps another or an automatic one,
\* and where Twilio's answers arrive: the later commit of each of these, and the
\* result of a call its executor took for failed, would undo a claim.)
ClaimExclusive ==
  \A e, f \in Executors :
    /\ e # f
    /\ exec[e].pc \in {"create", "dial"} /\ exec[f].pc \in {"create", "dial"}
    => exec[e].task # exec[f].task

\* The janitor fails no task whose execution or realtime call is still under
\* way: claim_for_execution stamps updated_at when the ten minutes begin.
JanitorSparesRunning ==
  [][\A t \in Tasks :
       /\ worker.pc = "sweep" /\ worker'.pc = "due"
       /\ task[t].status = "IN_PROGRESS" /\ task'[t].status = "FAILED"
       => ~InFlight(t)]_vars

\* No task stays IN_PROGRESS for ever: its executor, its call's finalizer, a
\* callback or, when all of those died, the janitor moves it on.
StuckResolved ==
  \A t \in Tasks : task[t].status = "IN_PROGRESS" ~> task[t].status # "IN_PROGRESS"

\* A scheduled task is picked up once its time has come, unless its user moves
\* it to another time first.
DuePickedUp ==
  \A t \in Tasks :
    task[t].status = "SCHEDULED" /\ task[t].scheduled_time = "due"
    ~> task[t].status # "SCHEDULED" \/ task[t].scheduled_time # "due"

\* A task that failed with a retryable error and has retries left does not stay
\* failed: the backoff window is set, elapses, and the worker reopens it.
RetryableReopened ==
  \A t \in Tasks : Retryable(t) ~> ~Retryable(t)

-----------------------------------------------------------------------------
(* Stated by the repository, refuted *)

\* "Mark the task FAILED so it doesn't stay SCHEDULED forever ... a pre-claim
\* failure leaves the task as-is" (scheduler/task_executor.py): the
\* except-branch is for tasks nobody has claimed.  It tests the instance in
\* memory, which a lost claim has set to IN_PROGRESS, and so it also fails the
\* task of the executor that won.
OverruleOnlyUnclaimed ==
  [][exec[Worker].pc = "overrule" /\ exec'[Worker].pc = "idle"
     => Claimable(exec[Worker].task)]_vars

\* "failed tasks with retryable errors retry after 1, 5, 30, 120 minutes"
\* (README): an automatic retry that has won its claim gets to dial.  It does
\* not while the call_session of the attempt it retries is still there.
AutoRetryDials ==
  [][exec[Worker].pc = "create" /\ worker.pc = "retryRun"
     => exec'[Worker].pc # "idle"]_exec

\* "Return a process-local semaphore that caps concurrent outbound calls."
\* (core/concurrency.py): at most MAX_CONCURRENT_CALLS calls in each of the two
\* processes.  The realtime executor leaves the semaphore once it has dialled.
LiveCallsCapped ==
  Cardinality({tc \in Tasks \X Calls : Connected(tc[1], tc[2])})
    <= 2 * MAX_CONCURRENT_CALLS

\* "Prevents double-execution when two requests (or scheduler + user click)
\* arrive for the same task" (tasks/repository.py): no second call is placed
\* while one is still connected.  A task failed under its live call (by a lost
\* race of the worker) can be retried by its user at once.
OneLiveCall ==
  \A t \in Tasks : Cardinality({c \in Calls : Connected(t, c)}) <= 1
=============================================================================
