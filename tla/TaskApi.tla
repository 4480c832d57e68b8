------------------------------- MODULE TaskApi -------------------------------
(***************************************************************************)
(* The task endpoints that change a task's life: edit, cancel, retry and   *)
(* execute (tasks/views.py, tasks/service.py).  A request is a coroutine   *)
(* of the API process with its own ORM session: it loads the task, tests   *)
(* its status, awaits, and commits what it decided.                        *)
(*                                                                         *)
(* An edit that leaves scheduled_time alone and a rating change no column  *)
(* anything here reads, and are left out.                                  *)
(***************************************************************************)
EXTENDS CallExecution

CONSTANTS
  Requests,     \* bound: concurrent requests
  Kinds,        \* the requests users make: subset of RequestKinds
  MaxRequests   \* bound: requests issued in a behaviour

RequestKinds == {"reschedule", "unschedule", "cancel", "retry", "execute"}

ASSUME ApiAssumption ==
  /\ Kinds \subseteq RequestKinds
  /\ MaxRequests \in Nat
  /\ MaxRequests < MaxAttempts   \* only a retry makes room for another attempt

VARIABLES
  req,     \* req[q] : what a request has got to
  asked    \* how many requests have been issued

apiVars == <<req, asked>>

ReqRec == [pc : {"idle", "loaded", "cleaned"},
           kind : RequestKinds \cup {"none"},
           task : Tasks \cup {None},
           status : TaskStatus]          \* as loaded

NoReq == [pc |-> "idle", kind |-> "none", task |-> None, status |-> "PENDING"]

ApiTypeOK ==
  /\ req \in [Requests -> ReqRec]
  /\ asked \in 0..MaxRequests

ApiInit ==
  /\ req = [q \in Requests |-> NoReq]
  /\ asked = 0

\* A request that fails its status test answers 409 and changes nothing.
Admits(kind, s) ==
  IF kind = "retry" THEN s \in {"FAILED", "DEFERRED"} ELSE s \in OpenStatus

Ask == asked < MaxRequests /\ asked' = asked + 1

Reply(q) == req' = [req EXCEPT ![q] = NoReq]

\* edit_task, cancel_task, retry_task: load and test.
LoadForRequest(q, kind, t) ==
  /\ req[q].pc = "idle"
  /\ kind \in Kinds \ {"execute"}
  /\ Admits(kind, task[t].status)
  /\ Ask
  /\ req' = [req EXCEPT ![q] = [pc |-> "loaded", kind |-> kind, task |-> t,
                                status |-> task[t].status]]
  /\ UNCHANGED <<storeVars, call, exec>>

\* edit_task with a new scheduled_time (the request schema refuses a past one).
Reschedule(q) ==
  LET t == req[q].task IN
  /\ req[q].pc = "loaded" /\ req[q].kind = "reschedule"
  /\ task' = [task EXCEPT ![t].scheduled_time = "future",
                          ![t].status = Dirty("SCHEDULED", req[q].status, @)]
  /\ Reply(q)
  /\ UNCHANGED <<session, data, issued, call, exec, asked>>

\* edit_task with scheduled_time: null.
Unschedule(q) ==
  LET t == req[q].task IN
  /\ req[q].pc = "loaded" /\ req[q].kind = "unschedule"
  /\ task' = [task EXCEPT ![t].scheduled_time = "none",
                          ![t].status = Dirty("PENDING", req[q].status, @)]
  /\ Reply(q)
  /\ UNCHANGED <<session, data, issued, call, exec, asked>>

\* cancel_task.
Cancel(q) ==
  /\ req[q].pc = "loaded" /\ req[q].kind = "cancel"
  /\ SetFailed(req[q].task, "cancelled")
  /\ Reply(q)
  /\ UNCHANGED <<session, data, issued, call, exec, asked>>

\* retry_task: delete the log lines and the call_session of earlier attempts.
CleanUp(q) ==
  /\ req[q].pc = "loaded" /\ req[q].kind = "retry"
  /\ DeleteSession(req[q].task)
  /\ req' = [req EXCEPT ![q].pc = "cleaned"]
  /\ UNCHANGED <<task, call, exec, asked>>

\* retry_task: PENDING without an error; retry_count and next_retry_at stay.
\* The view then starts a background execution.
Reopen(q) ==
  LET t == req[q].task IN
  /\ req[q].pc = "cleaned"
  /\ task' = [task EXCEPT ![t].status = "PENDING", ![t].error_reason = "none"]
  /\ Spawn(t)
  /\ Reply(q)
  /\ UNCHANGED <<session, data, issued, call, asked>>

\* execute_task_view: test and start a background execution.  The IN_PROGRESS
\* in the answer is never stored.
Execute(t) ==
  /\ "execute" \in Kinds
  /\ Admits("execute", task[t].status)
  /\ Ask
  /\ Spawn(t)
  /\ UNCHANGED <<storeVars, call, req>>

RequestStep(q) ==
  \/ Reschedule(q)
  \/ Unschedule(q)
  \/ Cancel(q)
  \/ CleanUp(q)
  \/ Reopen(q)

UserStep ==
  \/ \E q \in Requests, kind \in RequestKinds, t \in Tasks : LoadForRequest(q, kind, t)
  \/ \E t \in Tasks : Execute(t)
=============================================================================
