------------------------------ MODULE QuietCall ------------------------------
(***************************************************************************)
(* The running system: API process, worker process, the shared rows, the   *)
(* calls, and the two processes' crashes.                                  *)
(***************************************************************************)
EXTENDS TaskApi, Scheduler

CONSTANT MaxCrashes   \* bound: process restarts in a behaviour

ASSUME CrashAssumption == MaxCrashes \in Nat

VARIABLE crashes

vars == <<storeVars, teleVars, exec, apiVars, schedVars, crashes>>

TypeOK ==
  /\ StoreTypeOK
  /\ TeleTypeOK
  /\ ExecTypeOK
  /\ ApiTypeOK
  /\ SchedTypeOK
  /\ crashes \in 0..MaxCrashes

Init ==
  /\ StoreInit
  /\ TeleInit
  /\ ExecInit
  /\ ApiInit
  /\ SchedInit
  /\ crashes = 0

-----------------------------------------------------------------------------
(* Crashes *)

Crash == crashes < MaxCrashes /\ crashes' = crashes + 1

\* A realtime call loses the handler that would have stored its result, a legacy
\* call the executor that talked on it.
Orphan(k) ==
  [k EXCEPT !.st = IF k.st = "legacy" THEN "stray" ELSE "lost",
            !.status = "PENDING", !.err = "none", !.sess = 0]

\* The legacy call one of these executors drives.
DrivenBy(E, t, c) ==
  call[t][c].st = "legacy" /\ \E e \in E : exec[e].task = t /\ CallOf(e) = c

\* The API restarts: its requests, background executions, bridges, finalizers
\* and half-run callbacks are gone.  Ringing calls are Twilio's and go on.
ApiCrash ==
  /\ Crash
  /\ exec' = [e \in Executors |-> IF e = Worker THEN exec[e] ELSE Idle]
  /\ req' = [q \in Requests |-> NoReq]
  /\ call' = [t \in Tasks |-> [c \in Calls |->
       LET k == [call[t][c] EXCEPT !.cb = IF @ = "armed" THEN "over" ELSE @] IN
       IF k.st \in {"live", "closing", "loaded", "saved"} \/ DrivenBy(Runs, t, c)
         THEN Orphan(k) ELSE k]]
  /\ UNCHANGED <<storeVars, asked, worker>>

\* The worker restarts at the beginning of its loop.
WorkerCrash ==
  /\ Crash
  /\ exec' = [exec EXCEPT ![Worker] = Idle]
  /\ worker' = NewTick
  /\ call' = [t \in Tasks |-> [c \in Calls |->
       IF DrivenBy({Worker}, t, c) THEN Orphan(call[t][c]) ELSE call[t][c]]]
  /\ UNCHANGED <<storeVars, apiVars>>

-----------------------------------------------------------------------------
(* Composition *)

\* MAX_IN_PROGRESS_MINUTES are longer than a request, an execution's steps up
\* to the dial, or a realtime call (MAX_CALL_DURATION_SECONDS): none of those
\* lasts from before the cutoff to after it.
UnderWay(t) ==
  \/ \E e \in Executors : exec[e].task = t /\ exec[e].pc # "queued"
  \/ \E q \in Requests : req[q].task = t
  \/ \E c \in Calls : RealtimeInFlight(t, c) \/ call[t][c].cb = "armed"

Age(t) == ~UnderWay(t) /\ UpdatedAtAges(t)

ClockStep(t) ==
  /\ ScheduleComesDue(t) \/ RetryWindowElapses(t) \/ Age(t)
  /\ UNCHANGED <<call, exec, apiVars, worker, crashes>>

Telephone(t, c) == CallStep(t, c) /\ UNCHANGED <<exec, apiVars, worker, crashes>>
Callback(t, c)  == CallbackStep(t, c) /\ UNCHANGED <<exec, apiVars, worker, crashes>>
Executor(e)     == ExecStep(e) /\ UNCHANGED <<apiVars, worker, crashes>>
Request(q)      == RequestStep(q) /\ UNCHANGED <<worker, crashes>>
User            == UserStep /\ UNCHANGED <<worker, crashes>>
Poll            == SchedulerStep /\ UNCHANGED <<apiVars, crashes>>

Next ==
  \/ \E t \in Tasks : ClockStep(t)
  \/ \E t \in Tasks, c \in Calls : Telephone(t, c) \/ Callback(t, c)
  \/ \E e \in Executors : Executor(e)
  \/ \E q \in Requests : Request(q)
  \/ User
  \/ Poll
  \/ ApiCrash
  \/ WorkerCrash

Spec == Init /\ [][Next]_vars

\* The event loops run what is ready, time passes, Twilio and OpenAI end what
\* they began.  Nothing obliges users to act, processes to crash or Twilio to
\* deliver a callback.
Fairness ==
  /\ \A t \in Tasks :
       /\ WF_vars(ScheduleComesDue(t) /\ UNCHANGED <<call, exec, apiVars, worker, crashes>>)
       /\ WF_vars(RetryWindowElapses(t) /\ UNCHANGED <<call, exec, apiVars, worker, crashes>>)
       /\ WF_vars(Age(t) /\ UNCHANGED <<call, exec, apiVars, worker, crashes>>)
  /\ \A t \in Tasks, c \in Calls : WF_vars(Telephone(t, c))
  /\ \A e \in Executors : WF_vars(Executor(e))
  /\ \A q \in Requests : WF_vars(Request(q))
  /\ WF_vars(Poll)

FairSpec == Spec /\ Fairness
=============================================================================
