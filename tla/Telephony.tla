------------------------------ MODULE Telephony ------------------------------
(***************************************************************************)
(* The outbound calls and what comes back from them: Twilio's status and   *)
(* recording callbacks (webhooks/views.py) and the media-stream handler    *)
(* that owns a realtime call until _finalize_call has stored its result    *)
(* (webhooks/realtime_ws.py).  Twilio and the OpenAI bridge are            *)
(* environment here: a call rings, is answered by a person or a machine or *)
(* not at all, and ends with any outcome the bridge can report.            *)
(*                                                                         *)
(* Calls are named by the attempt (the call_session row) they were placed  *)
(* for and by the try of calls.create that placed them: a try whose answer *)
(* is lost raises and is repeated, and the call it placed rings all the    *)
(* same.  The callbacks and the media stream carry only the task id, and   *)
(* the handlers look the task and its call_session up by that id: nothing  *)
(* in them knows which attempt, or which try, they belong to.              *)
(***************************************************************************)
EXTENDS TaskStore

CONSTANTS
  MAX_CALL_RETRIES, \* integrations/twilio_adapter.py: tries of calls.create
  RepliesMayBeLost, \* may Twilio place a call and its answer be lost?
  InitMayFail,      \* may the OpenAI Realtime session fail to initialise?
  CallbackKinds     \* which adverse callbacks Twilio sends: subset of
                    \* {"noanswer", "machine"}; one may always be lost

ASSUME TelephonyAssumption ==
  /\ MAX_CALL_RETRIES \in Nat \ {0}
  /\ RepliesMayBeLost \in BOOLEAN
  /\ InitMayFail \in BOOLEAN
  /\ CallbackKinds \subseteq {"noanswer", "machine"}

VARIABLE call  \* call[t][c] : what became of call c of task t

teleVars == <<call>>

Tries == 1..MAX_CALL_RETRIES
Calls == Attempts \X Tries

CallState ==
  {"none",      \* not placed
   "ringing",   \* placed on the realtime path
   "live",      \* media stream connected, the bridge runs
   "closing",   \* the bridge returned, finalize is about to run
   "loaded",    \* finalize has loaded the task and the call_session
   "saved",     \* finalize has stored transcript, duration and tokens
   "legacy",    \* placed on the legacy path, its executor talks
   "stray",     \* placed on the legacy path, and nobody is there to talk
   "done",      \* realtime: result stored; legacy: the line is down
   "unanswered",\* ended without a media stream
   "lost"}      \* its handler died or aborted before storing a result

\* cb: its adverse status callback (on its way, past its guard, or over); sid:
\* calls.create returned, with the call's SID; status, err, sess: what finalize
\* loaded.
CallRec == [st : CallState,
            sid : BOOLEAN,
            cb : {"none", "noanswer", "machine", "armed", "over"},
            status : TaskStatus,
            err : ErrorReason,
            sess : 0..MaxAttempts]

NoCall == [st |-> "none", sid |-> FALSE, cb |-> "none",
           status |-> "PENDING", err |-> "none", sess |-> 0]

TeleTypeOK == call \in [Tasks -> [Calls -> CallRec]]

TeleInit == call = [t \in Tasks |-> [c \in Calls |-> NoCall]]

\* A realtime call somebody is still going to finish.
RealtimeInFlight(t, c) ==
  call[t][c].st \in {"ringing", "live", "closing", "loaded", "saved"}

Connected(t, c) ==
  call[t][c].st \in {"live", "closing", "loaded", "saved", "legacy", "stray"}

Goto(t, c, s) == call' = [call EXCEPT ![t][c].st = s]

\* Twilio places a call, and calls.create returns its SID or does not return
\* (used by the executors).
Place(t, c, st, cb, sid) ==
  call' = [call EXCEPT ![t][c].st = st, ![t][c].cb = cb, ![t][c].sid = sid]

-----------------------------------------------------------------------------
(* Twilio and the bridge *)

\* The callee (or a voicemail) picks up and the media stream connects.
Answer(t, c) ==
  /\ call[t][c].st = "ringing"
  /\ \E cb \in {"over"} \cup (CallbackKinds \cap {"machine"}) :
       call' = [call EXCEPT ![t][c].st = "live", ![t][c].cb = cb]
  /\ UNCHANGED storeVars

\* media_stream gives up before the bridge starts: no valid start event, or
\* no prompt.  Nothing is finalized.
StreamRejected(t, c) ==
  /\ call[t][c].st = "ringing"
  /\ Goto(t, c, "lost")
  /\ UNCHANGED storeVars

\* Busy, no answer, canceled or failed; the callback may never arrive.
RingOut(t, c) ==
  /\ call[t][c].st = "ringing"
  /\ \E cb \in {"over"} \cup (CallbackKinds \cap {"noanswer"}) :
       call' = [call EXCEPT ![t][c].st = "unanswered", ![t][c].cb = cb]
  /\ UNCHANGED storeVars

\* bridge.run returns: hang-up by either side, timers, errors.
BridgeEnds(t, c) ==
  /\ call[t][c].st = "live"
  /\ Goto(t, c, "closing")
  /\ UNCHANGED storeVars

\* A call without a driver ends when its instructions run out or its callee
\* hangs up.
StrayEnds(t, c) ==
  /\ call[t][c].st = "stray"
  /\ Goto(t, c, "done")
  /\ UNCHANGED storeVars

-----------------------------------------------------------------------------
(* _finalize_call *)

\* Load the task and its call_session, by task id.
FinalizeLoad(t, c) ==
  /\ call[t][c].st = "closing"
  /\ call' = [call EXCEPT ![t][c].st = "loaded",
                          ![t][c].status = task[t].status,
                          ![t][c].err = task[t].error_reason,
                          ![t][c].sess = session[t]]
  /\ UNCHANGED storeVars

\* Store log lines, duration, recording and tokens.  If the loaded row has been
\* deleted since, the flush raises and nothing more of finalize happens.
FinalizeSave(t, c) ==
  /\ call[t][c].st = "loaded"
  /\ UNCHANGED <<task, session, issued>>
  /\ \/ /\ call[t][c].sess = 0
        /\ Goto(t, c, "saved")
        /\ UNCHANGED data
     \/ /\ call[t][c].sess # 0 /\ call[t][c].sess = session[t]
        /\ WriteSession(t, c[1])
        /\ Goto(t, c, "saved")
     \/ /\ call[t][c].sess # 0 /\ call[t][c].sess # session[t]
        /\ Goto(t, c, "lost")
        /\ UNCHANGED data

Outcomes == {"achieved", "deferred", "failed", "none"}
              \cup (IF InitMayFail THEN {"init"} ELSE {})

\* Mutant: an outcome the enum of statuses does not know.
StatusOfUnknown(o) == CASE o = "achieved" -> "COMPLETED"
                        [] o = "deferred" -> "DEFERRED"
                        [] OTHER          -> "VOICEMAIL"

StatusOf(o) == CASE o = "achieved" -> "COMPLETED"
                 [] o = "deferred" -> "DEFERRED"
                 [] OTHER          -> "FAILED"

\* The error texts finalize may store.  The reason given with an outcome is free
\* text from the model and may contain a retryable keyword; without an outcome
\* an error that was loaded is kept.
ErrorsOf(o, loaded, stored) ==
  CASE o = "achieved"                  -> {stored}
    [] o \in {"deferred", "failed"}     -> {"plain", "network"}
    [] o = "none" /\ loaded = "none"   -> {"plain"}
    [] o = "none" /\ loaded # "none"   -> {stored}
    [] OTHER                           -> {"init"}

\* Store the outcome, unconditionally, then run post-call processing.
FinalizeStore(t, c) ==
  /\ call[t][c].st = "saved"
  /\ \E o \in Outcomes :
       \E e \in ErrorsOf(o, call[t][c].err, task[t].error_reason) :
         task' = [task EXCEPT
                    ![t].status = Dirty(StatusOf(o), call[t][c].status, @),
                    ![t].error_reason = e]
  /\ call' = [call EXCEPT ![t][c].st = "done", ![t][c].status = "PENDING",
                          ![t][c].err = "none", ![t][c].sess = 0]
  /\ UNCHANGED <<session, data, issued>>

-----------------------------------------------------------------------------
(* Status and recording callbacks *)

\* twilio_status_callback for busy/no-answer/canceled/failed or for a machine:
\* a machine is hung up first; an unanswered call zeroes the duration of the
\* task's call_session; then the task is loaded and its status tested.
CallbackLoad(t, c) ==
  /\ call[t][c].cb \in {"noanswer", "machine"}
  /\ call' = [call EXCEPT
       ![t][c].cb = IF task[t].status \in {"COMPLETED", "FAILED"} THEN "over" ELSE "armed",
       ![t][c].st = IF @ = "live" THEN "closing" ELSE @]
  /\ IF call[t][c].cb = "noanswer" /\ session[t] # 0
       THEN WriteSession(t, c[1]) ELSE UNCHANGED data
  /\ UNCHANGED <<task, session, issued>>

CallbackStore(t, c) ==
  /\ call[t][c].cb = "armed"
  /\ SetFailed(t, "plain")
  /\ call' = [call EXCEPT ![t][c].cb = "over"]
  /\ UNCHANGED <<session, data, issued>>

\* CallStatus=completed fills in a missing duration; the recording callback
\* stores the recording's address.  Both find the row by task id.
EndedCallback(t, c) ==
  /\ call[t][c].st \in {"done", "lost", "closing", "loaded", "saved"}
  /\ session[t] # 0
  /\ WriteSession(t, c[1])
  /\ UNCHANGED <<task, session, issued, call>>

CallStep(t, c) ==
  \/ Answer(t, c)
  \/ StreamRejected(t, c)
  \/ RingOut(t, c)
  \/ BridgeEnds(t, c)
  \/ StrayEnds(t, c)
  \/ FinalizeLoad(t, c)
  \/ FinalizeSave(t, c)
  \/ FinalizeStore(t, c)

CallbackStep(t, c) ==
  \/ CallbackLoad(t, c)
  \/ CallbackStore(t, c)
  \/ EndedCallback(t, c)
=============================================================================
