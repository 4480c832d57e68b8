------------------------------- MODULE PostCall -------------------------------
(***************************************************************************)
(* What is left of a call: its session row, its recording and the notices. *)
(* PostCallProcessor saves the recording under a name made of the task's   *)
(* id, mails and posts to the user's webhook; Twilio's recording callback  *)
(* finds the session by the task's id; a manual retry deletes the session  *)
(* (TaskService._cleanup_old_call_session) and the next call has a new     *)
(* one; CallService.get_recording_audio serves the file, else Twilio's     *)
(* copy, else speech made from the transcript, cached by the task's id.    *)
(*                                                                         *)
(* The finalizer of a call tests no status: when a machine's callback has  *)
(* failed the task and it has been retried, it works on the next call's    *)
(* row.                                                                    *)
(*                                                                         *)
(* One task.  Audio is the set of the calls that can be heard in it, a     *)
(* row's lines that of the calls they are of.  Left out: archiving, which  *)
(* only reads; what notices say; the commits that make up a dial, and the  *)
(* status callback's two queries (Telephony has those).  FinalizeSave is   *)
(* two commits, of the lines and of the row.                               *)
(***************************************************************************)
EXTENDS Integers, FiniteSets

CONSTANTS
  MaxCalls,  \* bound: calls placed for the task
  Listeners  \* requests for the recording

ASSUME PostCallAssumption == MaxCalls \in Nat

VARIABLES
  state,      \* task.status
  call,       \* the number of the last call placed
  session,    \* the CallSession row
  retrying,   \* retry_task's step: "no", "lines", "row", "status"
  callbacks,  \* calls whose recording callback has not come
  verdicts,   \* calls whose adverse status callback has not come
  ending,     \* of each call: where _finalize_call is, with the status it loaded
  jobs,       \* of each call: what its post-call processing has still to do
  saver,      \* of each call: where _save_recording_locally is, with its row
  recording,  \* the file task_<id>.mp3: the calls heard in it
  cache,      \* _demo_audio_cache[task_id]
  notified,   \* calls whose end was posted to the user's webhook
  mailed,     \* calls whose end was mailed
  reader,     \* of each listener: its step, the row it found, what it was served
  late        \* history: has something of an earlier call been stored since?

callVars    == <<state, call, session, retrying, callbacks, verdicts, ending>>
noticeVars  == <<jobs, notified, mailed>>
audioVars   == <<saver, recording, cache, reader>>
postCallVars == <<callVars, noticeVars, audioVars, late>>

Calls     == 1..MaxCalls
Outcomes  == {"COMPLETED", "FAILED", "DEFERRED"}
Retryable == {"FAILED", "DEFERRED"}
States    == {"PENDING", "IN_PROGRESS"} \cup Outcomes
Session   == [call : 0..MaxCalls, uri : 0..MaxCalls, local : BOOLEAN, lines : SUBSET Calls]
NoSession == [call |-> 0, uri |-> 0, local |-> FALSE, lines |-> {}]
Jobs      == {"user", "save", "mail", "hook"}
NotAsking == [step |-> "idle", row |-> NoSession, text |-> {}, audio |-> {}, via |-> "none"]

PostCallTypeOK ==
  /\ state \in States
  /\ call \in 0..MaxCalls /\ session \in Session
  /\ retrying \in {"no", "lines", "row", "status"} /\ callbacks \subseteq Calls /\ verdicts \subseteq Calls
  /\ ending \in [Calls -> [step : {"none", "live", "loaded", "saved", "over"}, was : States]]
  /\ jobs \in [Calls -> SUBSET Jobs]
  /\ saver \in [Calls -> [step : {"load", "fetch", "open", "write", "store", "over"}, row : Session]]
  /\ recording \subseteq Calls /\ cache \in [full : BOOLEAN, audio : SUBSET Calls]
  /\ notified \subseteq Calls /\ mailed \subseteq Calls /\ late \in BOOLEAN
  /\ reader \in [Listeners -> [step : {"idle", "local", "twilio", "demo", "speak", "served"}, row : Session,
                               text : SUBSET Calls, audio : SUBSET Calls, via : {"none", "file", "twilio", "cache", "speech"}]]

PostCallInit ==
  /\ state = "PENDING" /\ call = 0 /\ session = NoSession
  /\ retrying = "no" /\ callbacks = {} /\ verdicts = {}
  /\ ending = [c \in Calls |-> [step |-> "none", was |-> "PENDING"]]
  /\ jobs = [c \in Calls |-> {}] /\ notified = {} /\ mailed = {}
  /\ saver = [c \in Calls |-> [step |-> "load", row |-> NoSession]]
  /\ recording = {} /\ cache = [full |-> FALSE, audio |-> {}]
  /\ reader = [l \in Listeners |-> NotAsking] /\ late = FALSE

Stored == session # NoSession
IsStale(c) == session.call # c

-----------------------------------------------------------------------------
(* The call *)

NewSession(c) == [NoSession EXCEPT !.call = c]

Ending(c, step) == ending' = [ending EXCEPT ![c].step = step]
Ended(c) == ending' = [ending EXCEPT ![c] = [step |-> "over", was |-> "PENDING"]]

PlaceCall ==
  /\ state = "PENDING" /\ call < MaxCalls
  /\ state' = "IN_PROGRESS" /\ call' = call + 1
  /\ session' = NewSession(call + 1)
  /\ callbacks' = callbacks \cup {call + 1} /\ verdicts' = verdicts \cup {call + 1}
  /\ Ending(call + 1, "live")
  /\ UNCHANGED <<retrying, noticeVars, audioVars, late>>

\* The status callback fails the task, whichever call the task is at.
FailTask == state' = IF state \in {"COMPLETED", "FAILED"} THEN state ELSE "FAILED"

\* Busy, no-answer, canceled or failed: nothing is recorded or processed.
NotPickedUp(c) ==
  /\ c \in verdicts /\ ending[c].step = "live"
  /\ FailTask
  /\ Ended(c)
  /\ verdicts' = verdicts \ {c} /\ callbacks' = callbacks \ {c}
  /\ UNCHANGED <<call, session, retrying, noticeVars, audioVars, late>>

\* A machine has answered: the call is hung up, and its finalizer runs as well,
\* before or after.  Twilio reports it once.
MachineDetected(c) ==
  /\ c \in verdicts
  /\ FailTask
  /\ verdicts' = verdicts \ {c}
  /\ UNCHANGED <<call, session, retrying, callbacks, ending, noticeVars, audioVars, late>>

\* The finalizer loads the task, and the session the task has now.
FinalizeLoad(c) ==
  /\ ending[c].step = "live"
  /\ ending' = [ending EXCEPT ![c] = [step |-> "loaded", was |-> state]]
  /\ saver' = [saver EXCEPT ![c].row = session]
  /\ UNCHANGED <<state, call, session, retrying, callbacks, verdicts, noticeVars, recording, cache, reader, late>>

\* Log lines, and the recording's address if the row had none when it was loaded
\* and Twilio answers; the object is refreshed from the row.
SaveRow(c) ==
  /\ session.call = saver[c].row.call
  /\ \E texts \in SUBSET {c}, address \in {session.uri, IF saver[c].row.uri = 0 THEN c ELSE session.uri} :
       session' = [session EXCEPT !.lines = @ \cup texts, !.uri = address]
  /\ saver' = [saver EXCEPT ![c].row = session']
  /\ late' = (late \/ IsStale(c))

\* Without a row there is nothing to save.
FinalizeSave(c) ==
  /\ ending[c].step = "loaded"
  /\ Ending(c, "saved")
  /\ IF saver[c].row.call = 0 THEN UNCHANGED <<session, saver, late>> ELSE SaveRow(c)
  /\ UNCHANGED <<state, call, retrying, callbacks, verdicts, noticeVars, recording, cache, reader>>

\* The row has been deleted: the flush raises, and nothing more happens.
FinalizeRaises(c) ==
  /\ ending[c].step = "loaded" /\ saver[c].row.call \notin {0, session.call}
  /\ Ended(c)
  /\ UNCHANGED <<state, call, session, retrying, callbacks, verdicts, noticeVars, audioVars, late>>

\* _send_notification has a mail for success and one for failure.
MailFor(result) == IF result = "DEFERRED" THEN {} ELSE {"mail"}

\* The result is written over any status but the one that was loaded, which is
\* no change; then PostCallProcessor.process.
FinalizeStore(c) ==
  /\ ending[c].step = "saved"
  /\ \E result \in Outcomes :
       /\ state' = IF result = ending[c].was THEN state ELSE result
       /\ jobs' = [jobs EXCEPT ![c] = {"user"} \cup MailFor(result)]
  /\ Ended(c)
  /\ UNCHANGED <<call, session, retrying, callbacks, verdicts, notified, mailed, audioVars, late>>

\* twilio_recording_callback, for whatever session the task has now.
RecordingCallback(c) ==
  /\ c \in callbacks
  /\ callbacks' = callbacks \ {c}
  /\ session' = IF Stored THEN [session EXCEPT !.uri = c] ELSE session
  /\ late' = (late \/ (Stored /\ IsStale(c)))
  /\ UNCHANGED <<state, call, retrying, verdicts, ending, noticeVars, audioVars>>

\* retry_task: the log lines, the row and the status are three commits.
AskRetry ==
  /\ retrying = "no" /\ state \in Retryable
  /\ retrying' = IF Stored THEN "lines" ELSE "status"
  /\ UNCHANGED <<state, call, session, callbacks, verdicts, ending, noticeVars, audioVars, late>>

DeleteLines ==
  /\ retrying = "lines"
  /\ retrying' = "row"
  /\ session' = [session EXCEPT !.lines = {}]
  /\ UNCHANGED <<state, call, callbacks, verdicts, ending, noticeVars, audioVars, late>>

\* The lines refer to the row.
DeleteSession ==
  /\ retrying = "row" /\ session.lines = {}
  /\ retrying' = "status"
  /\ session' = NoSession
  /\ UNCHANGED <<state, call, callbacks, verdicts, ending, noticeVars, audioVars, late>>

\* A finalizer has added lines since: the row cannot go, and the retry fails.
RetryRaises ==
  /\ retrying = "row" /\ session.lines # {}
  /\ retrying' = "no"
  /\ UNCHANGED <<state, call, session, callbacks, verdicts, ending, noticeVars, audioVars, late>>

Requeue ==
  /\ retrying = "status"
  /\ retrying' = "no" /\ state' = "PENDING"
  /\ UNCHANGED <<call, session, callbacks, verdicts, ending, noticeVars, audioVars, late>>

Retry == AskRetry \/ DeleteLines \/ DeleteSession \/ RetryRaises \/ Requeue

CallGoes(c) ==
  \/ NotPickedUp(c) \/ MachineDetected(c)
  \/ FinalizeLoad(c) \/ FinalizeSave(c) \/ FinalizeRaises(c) \/ FinalizeStore(c)
  \/ RecordingCallback(c)

-----------------------------------------------------------------------------
(* PostCallProcessor.process *)

\* No user or no address ends it; what else is started depends on the user.
LoadRecipient(c) ==
  /\ "user" \in jobs[c]
  /\ \/ jobs' = [jobs EXCEPT ![c] = {}]
     \/ \E wanted \in SUBSET ({"hook"} \cup (jobs[c] \ {"user"})) : jobs' = [jobs EXCEPT ![c] = {"save"} \cup wanted]
  /\ UNCHANGED <<callVars, notified, mailed, audioVars, late>>

\* EmailService.send_email: the mail goes out, or its failure is only logged.
SendEmail(c) == mailed' \in {mailed, mailed \cup {c}}

SendNotification(c) ==
  /\ "mail" \in jobs[c] /\ "user" \notin jobs[c]
  /\ jobs' = [jobs EXCEPT ![c] = @ \ {"mail"}]
  /\ SendEmail(c)
  /\ UNCHANGED <<callVars, notified, audioVars, late>>

\* send_task_webhook: one attempt, whatever comes of it.
SendTaskWebhook(c) ==
  /\ "hook" \in jobs[c]
  /\ jobs' = [jobs EXCEPT ![c] = @ \ {"hook"}]
  /\ notified' = notified \cup {c}
  /\ UNCHANGED <<callVars, mailed, audioVars, late>>

\* Mutant: the first coroutine to end takes the others with it.
SaverEndsAll(c) ==
  /\ saver' = [saver EXCEPT ![c] = [step |-> "over", row |-> NoSession]]
  /\ jobs' = [jobs EXCEPT ![c] = {}]

\* gather(return_exceptions=True): what ends, well or not, ends alone.
SaverEnds(c) ==
  /\ saver' = [saver EXCEPT ![c] = [step |-> "over", row |-> NoSession]]
  /\ jobs' = [jobs EXCEPT ![c] = @ \ {"save"}]

SaverGoesOn(c, step) ==
  /\ saver' = [saver EXCEPT ![c].step = step]
  /\ UNCHANGED jobs

Saves(c, step) == "save" \in jobs[c] /\ saver[c].step = step

\* The object of the row the finalizer had, as it was; another row is read anew.
FoundRow(c) == IF session.call = saver[c].row.call THEN saver[c].row ELSE session

\* The query may raise: archiving, the mail and the saver share one session.
SaverLoads(c) ==
  /\ Saves(c, "load")
  /\ LET row == FoundRow(c)
     IN \/ SaverEnds(c)
        \/ /\ row.uri # 0 /\ ~row.local
           /\ saver' = [saver EXCEPT ![c] = [step |-> "fetch", row |-> row]]
           /\ UNCHANGED jobs
  /\ UNCHANGED <<callVars, notified, mailed, recording, cache, reader, late>>

\* The download from Twilio.
SaverFetches(c) ==
  /\ Saves(c, "fetch")
  /\ SaverGoesOn(c, "open") \/ SaverEnds(c)
  /\ UNCHANGED <<callVars, notified, mailed, recording, cache, reader, late>>

\* Opening for writing empties the file.
SaverOpens(c) ==
  /\ Saves(c, "open")
  /\ recording' = {}
  /\ late' = (late \/ IsStale(c))
  /\ SaverGoesOn(c, "write")
  /\ UNCHANGED <<callVars, notified, mailed, cache, reader>>

SaverWrites(c) ==
  /\ Saves(c, "write")
  /\ \/ /\ recording' = recording \cup {saver[c].row.uri}
        /\ SaverGoesOn(c, "store")
     \/ UNCHANGED recording /\ SaverEnds(c)
  /\ late' = (late \/ IsStale(c))
  /\ UNCHANGED <<callVars, notified, mailed, cache, reader>>

\* Mutant: the path is stored by task, in whatever session there is.
SaverStoresByTask(c) ==
  /\ Saves(c, "store")
  /\ session' = IF Stored THEN [session EXCEPT !.local = TRUE] ELSE session
  /\ SaverEnds(c)
  /\ UNCHANGED <<state, call, retrying, callbacks, verdicts, ending, notified, mailed, recording, cache, reader, late>>

\* The commit updates no row, and raises, if the row has been deleted.
SaverStores(c) ==
  /\ Saves(c, "store")
  /\ session' = IF session.call = saver[c].row.call THEN [session EXCEPT !.local = TRUE] ELSE session
  /\ SaverEnds(c)
  /\ UNCHANGED <<state, call, retrying, callbacks, verdicts, ending, notified, mailed, recording, cache, reader, late>>

Processor(c) ==
  \/ LoadRecipient(c) \/ SendNotification(c) \/ SendTaskWebhook(c)
  \/ SaverLoads(c) \/ SaverFetches(c) \/ SaverOpens(c) \/ SaverWrites(c) \/ SaverStores(c)

-----------------------------------------------------------------------------
(* get_recording_audio *)

Serve(l, audio, via) ==
  reader' = [reader EXCEPT ![l] = [step |-> "served", text |-> {}, audio |-> audio, via |-> via,
                                   row |-> [NoSession EXCEPT !.call = reader[l].row.call]]]

\* Without a session or an address the answer is 404.
RequestRecording(l) ==
  /\ reader[l].step \in {"idle", "served"}
  /\ session.uri # 0
  /\ reader' = [reader EXCEPT ![l] = [NotAsking EXCEPT !.step = "local", !.row = session]]
  /\ UNCHANGED <<callVars, noticeVars, saver, recording, cache, late>>

\* Mutant: the file is served by its name, whatever the row says.
ReadLocalByName(l) ==
  /\ reader[l].step = "local"
  /\ IF recording # {}
     THEN Serve(l, recording, "file")
     ELSE reader' = [reader EXCEPT ![l].step = "twilio"]
  /\ UNCHANGED <<callVars, noticeVars, saver, recording, cache, late>>

\* A path may name a file that is not on this process's disk.
ReadLocal(l) ==
  /\ reader[l].step = "local"
  /\ \/ reader[l].row.local /\ Serve(l, recording, "file")
     \/ reader' = [reader EXCEPT ![l].step = "twilio"]
  /\ UNCHANGED <<callVars, noticeVars, saver, recording, cache, late>>

FetchFromTwilio(l) ==
  /\ reader[l].step = "twilio"
  /\ \/ Serve(l, {reader[l].row.uri}, "twilio")
     \/ reader' = [reader EXCEPT ![l].step = "demo"]
  /\ UNCHANGED <<callVars, noticeVars, saver, recording, cache, late>>

ServeCached(l) ==
  /\ reader[l].step = "demo" /\ cache.full
  /\ Serve(l, cache.audio, "cache")
  /\ UNCHANGED <<callVars, noticeVars, saver, recording, cache, late>>

\* The transcript of the row it found, if it is still there.
LoadTranscript(l) ==
  /\ reader[l].step = "demo" /\ ~cache.full
  /\ reader' = [reader EXCEPT ![l].step = "speak",
       ![l].text = IF session.call = reader[l].row.call THEN session.lines ELSE {}]
  /\ UNCHANGED <<callVars, noticeVars, saver, recording, cache, late>>

\* generate_demo_conversation_mp3_async leaves out the lines that cannot be
\* spoken; when none is left, or without a transcript, it is a silent placeholder.
DemoAudio(text) == SUBSET text

\* Speech of the transcript or a placeholder is cached.
GenerateDemoAudio(l) ==
  /\ reader[l].step = "speak"
  /\ \E audio \in DemoAudio(reader[l].text) :
       /\ cache' = [full |-> TRUE, audio |-> audio]
       /\ Serve(l, audio, "speech")
  /\ UNCHANGED <<callVars, noticeVars, saver, recording, late>>

Listener(l) ==
  \/ RequestRecording(l) \/ ReadLocal(l) \/ FetchFromTwilio(l)
  \/ ServeCached(l) \/ LoadTranscript(l) \/ GenerateDemoAudio(l)

-----------------------------------------------------------------------------
PostCallNext ==
  \/ PlaceCall \/ Retry
  \/ \E c \in Calls : CallGoes(c) \/ Processor(c)
  \/ \E l \in Listeners : Listener(l)

\* A processor's awaits all end: queries, a download, a mail, a post.
PostCallFairness == \A c \in Calls : WF_postCallVars(Processor(c))

PostCallSpec == PostCallInit /\ [][PostCallNext]_postCallVars /\ PostCallFairness

-----------------------------------------------------------------------------
(* Properties *)

\* A session that names a local file finds its own call's recording in it,
\* whole, although all calls of the task share the file's name and a saver goes by
\* the row its finalizer had; unless the callback, the finalizer or the saver of
\* an earlier call has worked on the next call's row (post_call.py:116-131,
\* realtime_ws.py:231-261, webhooks/views.py:184-188).
LocalFileIsTheCalls ==
  session.local => recording = {session.call} \/ late

\* Who asks for a call's recording never hears an earlier call, unless something
\* of that one has been stored after its retry, or its demo audio is in the
\* cache, which a retry leaves alone (calls/service.py:91-137).
AudioIsOfItsCall ==
  \A l \in Listeners :
    reader[l].step = "served" =>
      \/ \A c \in reader[l].audio : c >= reader[l].row.call
      \/ late \/ reader[l].via = "cache"

\* A user with a webhook is told of every call that was processed, although the
\* recording, saved beside it, may fail at its query, its download, its file or
\* its commit, and the mail as well (post_call.py:58-67).
WebhookIsPosted ==
  \A c \in Calls : "hook" \in jobs[c] ~> c \in notified

=============================================================================
