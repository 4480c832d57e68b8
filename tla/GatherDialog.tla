----------------------------- MODULE GatherDialog -----------------------------
(***************************************************************************)
(* One legacy call: CallManager.execute_task after the claim, with         *)
(* TwilioAdapter and OpenAIAdapter.  The agent speaks through calls.update *)
(* and then awaits a future that the gather webhook resolves with what the *)
(* callee said.  The futures live in a dictionary of the process, keyed by *)
(* the call: the webhook reaches the API process, so a call that the       *)
(* worker process runs never hears an answer.                              *)
(*                                                                         *)
(* A line of the agent is its kind; an answer is the number of the line it *)
(* answers and whether it has words.  Left out: the texts, the recording   *)
(* and session rows (TaskStore and CallExecution have them), the processes *)
(* dying (QuietCall has that).                                             *)
(***************************************************************************)
EXTENDS Integers, Sequences, FiniteSets

CONSTANTS
  MAX_CALL_RETRIES,             \* twilio_adapter.py:15
  CALL_ANSWER_TIMEOUT_SECONDS,  \* polls before a call counts as unanswered
  MAX_DIALOG_TURNS,             \* call_manager.py:24
  MAX_RETRY_ON_NOISE,           \* call_manager.py:25
  LLM_MAX_RETRIES               \* async_retry(max_retries=...)

ASSUME DialogAssumption ==
  /\ MAX_CALL_RETRIES \in Nat \ {0}
  /\ CALL_ANSWER_TIMEOUT_SECONDS \in Nat \ {0}
  /\ MAX_DIALOG_TURNS \in Nat \ {0}
  /\ MAX_RETRY_ON_NOISE \in Nat \ {0}
  /\ LLM_MAX_RETRIES \in Nat \ {0}

VARIABLES
  home,      \* the process that runs the call: "api" or "worker"
  phase,     \* what the coroutine awaits
  dials, rings,  \* calls.create sent; calls Twilio has placed for them
  polls,     \* _wait_for_answer's iterations
  line,      \* the call at Twilio: "none", "ringing", "up", "down"
  gather,    \* the agent line Twilio is gathering an answer to, or 0
  posted,    \* answers on their way to the gather webhook
  future,    \* _gather_results[call_sid]: its state and, when done, its result
  answer,    \* interlocutor_text
  lines,     \* kinds of the agent's lines in conv.history
  callee_said,     \* the callee's lines in conv.history
  turn, noise,  \* _turn and conv.noise_retries
  closing,   \* is the line being spoken followed by a break?
  tries,     \* failed attempts of the OpenAI request being awaited
  verdict    \* task.status: "IN_PROGRESS", "COMPLETED", "FAILED"

dialVars   == <<dials, rings, polls>>
twilioVars == <<line, gather, posted>>
convVars   == <<lines, callee_said, turn, noise, closing>>
dialogVars == <<home, phase, dialVars, twilioVars, future, answer, convVars, tries, verdict>>

Answers == [to : Nat \ {0}, words : BOOLEAN]
Silence == [to |-> 0, words |-> FALSE]
NoFuture == [state |-> "none", result |-> Silence]
Pending  == [state |-> "pending", result |-> Silence]

Markers == {"achieved", "failed"}
Kinds   == Markers \cup {"plain", "apology", "giveup"}
Phases  == {"dialing", "ringing", "opening", "updating", "waiting", "intent",
            "replying", "hangup", "recording", "summary", "over"}

DialogTypeOK ==
  /\ home \in {"api", "worker"} /\ phase \in Phases
  /\ dials \in 0..MAX_CALL_RETRIES /\ rings \in 0..dials
  /\ polls \in 0..CALL_ANSWER_TIMEOUT_SECONDS
  /\ line \in {"none", "ringing", "up", "down"} /\ gather \in Nat
  /\ posted \subseteq Answers /\ future \in [state : {"none", "pending", "done"}, result : Answers \cup {Silence}]
  /\ answer \in Answers \cup {Silence}
  /\ lines \in Seq(Kinds) /\ callee_said \in Seq(Nat)
  /\ turn \in 0..MAX_DIALOG_TURNS /\ noise \in 0..MAX_RETRY_ON_NOISE
  /\ closing \in BOOLEAN /\ tries \in 0..(LLM_MAX_RETRIES - 1)
  /\ verdict \in {"IN_PROGRESS", "COMPLETED", "FAILED"}

DialogInit ==
  /\ home \in {"api", "worker"} /\ phase = "dialing"
  /\ dials = 0 /\ rings = 0 /\ polls = 0
  /\ line = "none" /\ gather = 0 /\ posted = {}
  /\ future = NoFuture /\ answer = Silence
  /\ lines = <<>> /\ callee_said = <<>> /\ turn = 0 /\ noise = 0 /\ closing = FALSE
  /\ tries = 0 /\ verdict = "IN_PROGRESS"

\* Mutant: the except-branch leaves the task as it is.
RaiseUnstored ==
  /\ phase' = "over" /\ UNCHANGED verdict

\* execute_task's except: the task fails, nothing hangs up.
Raise ==
  /\ phase' = "over" /\ verdict' = "FAILED"

-----------------------------------------------------------------------------
(* Dialling *)

DialAccepted ==
  /\ phase = "dialing"
  /\ dials' = dials + 1 /\ rings' = rings + 1
  /\ line' = "ringing" /\ phase' = "ringing"
  /\ UNCHANGED <<home, polls, gather, posted, future, answer, convVars, tries, verdict>>

\* The request raises: it never reached Twilio, or the call was placed and
\* only the response is lost.  Both are tried again.
DialRaises ==
  /\ phase = "dialing"
  /\ dials' = dials + 1
  /\ rings' \in {rings, rings + 1}
  /\ IF dials' < MAX_CALL_RETRIES THEN UNCHANGED <<phase, verdict>> ELSE Raise
  /\ UNCHANGED <<home, polls, twilioVars, future, answer, convVars, tries>>

\* _wait_for_answer
PollAnswered ==
  /\ phase = "ringing" /\ line = "up"
  /\ phase' = "opening"
  /\ UNCHANGED <<home, dialVars, twilioVars, future, answer, convVars, tries, verdict>>

PollRinging ==
  /\ phase = "ringing" /\ line = "ringing"
  /\ polls' = polls + 1
  /\ IF polls' < CALL_ANSWER_TIMEOUT_SECONDS THEN UNCHANGED <<phase, verdict>> ELSE Raise
  /\ UNCHANGED <<home, dials, rings, twilioVars, future, answer, convVars, tries>>

\* The call has ended, or asking for its status raises.
PollRaises ==
  /\ phase = "ringing"
  /\ Raise
  /\ UNCHANGED <<home, dialVars, twilioVars, future, answer, convVars, tries>>

-----------------------------------------------------------------------------
(* Twilio and the callee *)

PicksUp ==
  /\ line = "ringing"
  /\ line' = "up"
  /\ UNCHANGED <<home, phase, dialVars, gather, posted, future, answer, convVars, tries, verdict>>

Drops ==
  /\ line \in {"ringing", "up"}
  /\ line' = "down" /\ gather' = 0
  /\ UNCHANGED <<home, phase, dialVars, posted, future, answer, convVars, tries, verdict>>

\* A gather ends with one answer; afterwards the callee hears a pause.
CalleeAnswers ==
  /\ gather # 0
  /\ \E words \in BOOLEAN : posted' = posted \cup {[to |-> gather, words |-> words]}
  /\ gather' = 0
  /\ UNCHANGED <<home, phase, dialVars, line, future, answer, convVars, tries, verdict>>

\* set_gather_result, in the API process.
SetGatherResult ==
  \E a \in posted :
    /\ posted' = posted \ {a}
    /\ future' = IF home = "api" /\ future = Pending
                 THEN [state |-> "done", result |-> a] ELSE future
    /\ UNCHANGED <<home, phase, dialVars, line, gather, answer, convVars, tries, verdict>>

-----------------------------------------------------------------------------
(* say_and_gather *)

add_agent_message(kind) == lines' = Append(lines, kind)

\* A line of the agent and the start of say_and_gather: the future is
\* registered before Twilio is asked to speak.
Say(kind, last) ==
  /\ add_agent_message(kind)
  /\ closing' = last
  /\ future' = Pending
  /\ phase' = "updating"

Updated ==
  /\ phase = "updating" /\ line = "up"
  /\ gather' = Len(lines)
  /\ phase' = "waiting"
  /\ UNCHANGED <<home, dialVars, line, posted, future, answer, convVars, tries, verdict>>

\* Mutant: the error leaves the future registered.
UpdateRaisesKeepingFuture ==
  /\ phase = "updating"
  /\ Raise
  /\ UNCHANGED <<home, dialVars, twilioVars, future, answer, convVars, tries>>

\* Twilio refuses the update, as it does once the call has ended.
UpdateRaises ==
  /\ phase = "updating"
  /\ future' = NoFuture
  /\ Raise
  /\ UNCHANGED <<home, dialVars, twilioVars, answer, convVars, tries>>

\* One iteration of _run_dialog_loop with the text that say_and_gather
\* returned, up to its first await.
NoMoreTurns ==
  /\ turn = MAX_DIALOG_TURNS
  /\ phase' = "hangup" /\ future' = NoFuture
  /\ UNCHANGED convVars

NoiseTurn ==
  /\ turn < MAX_DIALOG_TURNS /\ ~answer'.words
  /\ turn' = turn + 1 /\ noise' = noise + 1
  /\ UNCHANGED callee_said
  /\ IF noise' >= MAX_RETRY_ON_NOISE
     THEN /\ add_agent_message("giveup")
          /\ phase' = "hangup" /\ future' = NoFuture
          /\ UNCHANGED closing
     ELSE Say("apology", FALSE)

\* Mutant: a turn with an answer is not counted.
SpeechTurnUncounted ==
  /\ turn < MAX_DIALOG_TURNS /\ answer'.words
  /\ turn' = turn /\ noise' = 0
  /\ phase' = "intent" /\ future' = NoFuture
  /\ UNCHANGED <<lines, callee_said, closing>>

\* Mutant: silence is taken for an answer.
SpeechTurnWithoutWords ==
  /\ turn < MAX_DIALOG_TURNS
  /\ turn' = turn + 1 /\ noise' = 0
  /\ phase' = "intent" /\ future' = NoFuture
  /\ UNCHANGED <<lines, callee_said, closing>>

SpeechTurn ==
  /\ turn < MAX_DIALOG_TURNS /\ answer'.words
  /\ turn' = turn + 1 /\ noise' = 0
  /\ phase' = "intent" /\ future' = NoFuture
  /\ UNCHANGED <<lines, callee_said, closing>>

LoopTurn == NoMoreTurns \/ NoiseTurn \/ SpeechTurn

\* Mutant: a wait that times out returns the last answer again.
ReceivedTextOrLast == IF future.state = "done" THEN future.result ELSE answer

\* The answer, or "" when the wait times out with the future still pending.
ReceivedText == future.result

\* say_and_gather returns; its finally forgets the future.
GatherReturns ==
  /\ phase = "waiting"
  /\ answer' = ReceivedText
  /\ IF closing
     THEN phase' = "hangup" /\ future' = NoFuture /\ UNCHANGED convVars
     ELSE LoopTurn
  /\ UNCHANGED <<home, dialVars, twilioVars, tries, verdict>>

-----------------------------------------------------------------------------
(* OpenAI *)

\* generate_response: a text with a marker or without, which may be empty.
GenerateResponse == Markers \cup {"plain"}

\* detect_intent: of its labels only rejection matters; it swallows its errors.
DetectIntent == {"rejection", "other"}

add_interlocutor_message == callee_said' = Append(callee_said, answer.to)

\* The opening line is spoken whatever it contains: no is_complete test.
Opened ==
  /\ phase = "opening"
  /\ \E kind \in GenerateResponse : Say(kind, FALSE)
  /\ tries' = 0
  /\ UNCHANGED <<home, dialVars, twilioVars, answer, callee_said, turn, noise, verdict>>

\* A rejection is answered by REJECTION_FAREWELL, which has the failure marker.
IntentDetected ==
  /\ phase = "intent"
  /\ add_interlocutor_message
  /\ \E intent \in DetectIntent :
       IF intent = "rejection"
       THEN Say("failed", TRUE)
       ELSE phase' = "replying" /\ UNCHANGED <<lines, closing, future>>
  /\ UNCHANGED <<home, dialVars, twilioVars, answer, turn, noise, tries, verdict>>

\* Mutant: only success completes the conversation.
is_complete_on_success(kind) == kind = "achieved"

is_complete(kind) == kind \in Markers

Replied ==
  /\ phase = "replying"
  /\ \E kind \in GenerateResponse : Say(kind, is_complete(kind))
  /\ tries' = 0
  /\ UNCHANGED <<home, dialVars, twilioVars, answer, callee_said, turn, noise, verdict>>

\* async_retry tries again after a transient error, up to max_retries in all.
TransientError ==
  /\ phase \in {"opening", "replying", "summary"}
  /\ tries + 1 < LLM_MAX_RETRIES
  /\ tries' = tries + 1
  /\ UNCHANGED <<home, phase, dialVars, twilioVars, future, answer, convVars, verdict>>

\* Any other error, or the last try's.
OpenAIRaises ==
  /\ phase \in {"opening", "replying", "summary"}
  /\ Raise
  /\ UNCHANGED <<home, dialVars, twilioVars, future, answer, convVars, tries>>

-----------------------------------------------------------------------------
(* After the dialog *)

\* hangup swallows its errors.
HangUp ==
  /\ phase = "hangup"
  /\ \/ line' = "down" /\ gather' = 0
     \/ UNCHANGED <<line, gather>>
  /\ phase' = "recording"
  /\ UNCHANGED <<home, dialVars, posted, future, answer, convVars, tries, verdict>>

\* get_recording_url and the session's update.
RecordingStored ==
  /\ phase = "recording"
  /\ phase' = "summary"
  /\ UNCHANGED <<home, dialVars, twilioVars, future, answer, convVars, tries, verdict>>

RecordingRaises ==
  /\ phase = "recording"
  /\ Raise
  /\ UNCHANGED <<home, dialVars, twilioVars, future, answer, convVars, tries>>

has_objective_achieved == \E i \in DOMAIN lines : lines[i] = "achieved"

Summarised ==
  /\ phase = "summary"
  /\ phase' = "over"
  /\ verdict' = IF has_objective_achieved THEN "COMPLETED" ELSE "FAILED"
  /\ tries' = 0
  /\ UNCHANGED <<home, dialVars, twilioVars, future, answer, convVars>>

-----------------------------------------------------------------------------
Manager ==
  \/ DialAccepted \/ DialRaises \/ PollAnswered \/ PollRinging \/ PollRaises
  \/ Updated \/ UpdateRaises \/ GatherReturns
  \/ Opened \/ IntentDetected \/ Replied \/ TransientError \/ OpenAIRaises
  \/ HangUp \/ RecordingStored \/ RecordingRaises \/ Summarised

Callee == PicksUp \/ Drops \/ CalleeAnswers

DialogNext == Manager \/ Callee \/ SetGatherResult

\* Every await of the manager is bounded by a timeout; nothing is asked of the
\* callee, of Twilio's webhooks or of the line.
DialogFairness == WF_dialogVars(Manager)

DialogSpec == DialogInit /\ [][DialogNext]_dialogVars /\ DialogFairness

-----------------------------------------------------------------------------
(* Properties *)

\* However silent or talkative the callee, the agent speaks at most once per
\* turn and once to open (call_manager.py:146-195).
DialogIsBounded == Len(lines) <= MAX_DIALOG_TURNS + 1

\* A future is registered only while say_and_gather runs; no exit of it, by
\* answer, timeout or error, leaves an entry behind (twilio_adapter.py:25-28).
FutureHasReader == future # NoFuture => phase \in {"updating", "waiting"}

\* Late answers may reach the wait for a later line, but every answer enters
\* the history at most once, after the line it answers
\* (twilio_adapter.py:35-38, call_manager.py:169-171).
AnswersHeardOnce ==
  /\ \A i, j \in DOMAIN callee_said : callee_said[i] = callee_said[j] => i = j
  /\ \A i \in DOMAIN callee_said : callee_said[i] \in 1..Len(lines)

\* A line that carries a marker is the agent's last, unless it opened the
\* call: the opening is not tested by is_complete (call_manager.py:99-103).
MarkerEndsDialog ==
  \A i \in DOMAIN lines : lines[i] \in Markers => i \in {1, Len(lines)}

\* A call that the worker runs hears nothing, since the webhook's process has
\* no future of it; it gives up after MAX_RETRY_ON_NOISE lines and can only be
\* COMPLETED by its own opening line (twilio_adapter.py:25-28).
WorkerCallIsDeaf ==
  home = "worker" =>
    /\ callee_said = <<>>
    /\ \A i \in DOMAIN lines : i > 1 => lines[i] \in {"apology", "giveup"}
    /\ Len(lines) <= MAX_RETRY_ON_NOISE + 1

\* A call that Twilio was asked for ends in a verdict, with a silent callee, lost
\* answers and a line that drops at any point (call_manager.py:79-144).
DialogEnds == dials > 0 ~> verdict # "IN_PROGRESS"

=============================================================================
