----------------------------- MODULE DialogProofs -----------------------------
(***************************************************************************)
(* The legacy dialog, for any limits: it is bounded, a marker ends it,     *)
(* every future is forgotten, no answer is heard twice, and a call of the  *)
(* worker hears nothing.                                                   *)
(***************************************************************************)
EXTENDS GatherDialog, SequenceTheorems, TLAPS

Speaking  == phase \in {"updating", "waiting"}
Listening == phase \in {"intent", "replying"}
Before    == phase \in {"dialing", "ringing", "opening"}

\* The limits are not reached while there is something to be counted.
TurnsInv ==
  /\ phase = "dialing" => dials < MAX_CALL_RETRIES /\ polls = 0
  /\ phase = "ringing" => polls < CALL_ANSWER_TIMEOUT_SECONDS
  /\ Speaking \/ Listening => noise < MAX_RETRY_ON_NOISE
  /\ Before => lines = <<>> /\ callee_said = <<>> /\ turn = 0 /\ noise = 0
  /\ Len(lines) <= turn + 1
  /\ Listening => Len(lines) <= turn

\* A future's result is an answer once it is done, and nothing before.
FutureInv ==
  /\ future.state \in {"none", "pending"} => future.result = Silence
  /\ future.state = "done" => future.result \in Answers
  /\ FutureHasReader

\* The dialog goes on after a line without a marker only.
Unmarked == Listening \/ (Speaking /\ ~closing)
MarkerInv ==
  /\ Unmarked /\ Len(lines) > 1 => lines[Len(lines)] \notin Markers
  /\ MarkerEndsDialog

\* The worker has no future that an answer could reach.
DeafInv ==
  home = "worker" =>
    /\ future.state # "done" /\ ~answer.words /\ ~Listening
    /\ Speaking \/ Before => Len(lines) <= noise + 1
    /\ WorkerCallIsDeaf

DialogInv == DialogTypeOK /\ TurnsInv /\ FutureInv /\ MarkerInv /\ DeafInv

-----------------------------------------------------------------------------
LEMMA DialogInitInv == DialogInit => DialogInv
<1> SUFFICES ASSUME DialogInit PROVE DialogInv
  OBVIOUS
<1> USE DialogAssumption DEF DialogInit, NoFuture, Silence
<1>1. DialogTypeOK
  <2>1. /\ dials \in 0..MAX_CALL_RETRIES /\ rings \in 0..dials /\ polls \in 0..CALL_ANSWER_TIMEOUT_SECONDS
        /\ turn \in 0..MAX_DIALOG_TURNS /\ noise \in 0..MAX_RETRY_ON_NOISE /\ tries \in 0..(LLM_MAX_RETRIES - 1)
    OBVIOUS
  <2>2. lines \in Seq(Kinds) /\ callee_said \in Seq(Nat)
    OBVIOUS
  <2> QED
    BY <2>1, <2>2 DEF DialogTypeOK, Phases
<1>2. TurnsInv /\ FutureInv
  BY DEF TurnsInv, FutureInv, FutureHasReader, Before, Speaking, Listening
<1>3. MarkerInv /\ DeafInv
  BY DEF MarkerInv, MarkerEndsDialog, DeafInv, WorkerCallIsDeaf, Unmarked, Before, Speaking, Listening
<1> QED
  BY <1>1, <1>2, <1>3 DEF DialogInv

-----------------------------------------------------------------------------
(* Steps that say nothing: no line is added and no answer taken *)

Dialling  == DialAccepted \/ DialRaises \/ PollAnswered \/ PollRinging \/ PollRaises
Twilio    == PicksUp \/ Drops \/ CalleeAnswers \/ SetGatherResult
Afterward == HangUp \/ RecordingStored \/ RecordingRaises \/ Summarised
Quiet     == Dialling \/ Twilio \/ Updated \/ UpdateRaises
               \/ TransientError \/ OpenAIRaises \/ Afterward

LEMMA QuietLeaves ==
  ASSUME Quiet
  PROVE  UNCHANGED <<home, lines, callee_said, turn, noise, closing, answer>>
BY DEF Quiet, Dialling, Twilio, Afterward, DialAccepted, DialRaises, PollAnswered, PollRinging, PollRaises,
       PicksUp, Drops, CalleeAnswers, SetGatherResult, Updated, UpdateRaises, TransientError, OpenAIRaises,
       HangUp, RecordingStored, RecordingRaises, Summarised, convVars

LEMMA DiallingTypes ==
  ASSUME DialogInv, Dialling
  PROVE  DialogTypeOK'
<1> USE DialogAssumption DEF DialogInv, DialogTypeOK, TurnsInv, Phases, Raise, convVars, twilioVars, dialVars
<1>1. CASE DialAccepted
  BY <1>1 DEF DialAccepted
<1>2. CASE DialRaises
  BY <1>2 DEF DialRaises
<1>3. CASE PollAnswered \/ PollRaises
  BY <1>3 DEF PollAnswered, PollRaises
<1>4. CASE PollRinging
  BY <1>4 DEF PollRinging
<1> QED
  BY <1>1, <1>2, <1>3, <1>4 DEF Dialling

LEMMA TwilioTypes ==
  ASSUME DialogInv, Twilio
  PROVE  DialogTypeOK'
<1> USE DEF DialogInv, DialogTypeOK, FutureInv, convVars, twilioVars, dialVars
<1>1. CASE PicksUp \/ Drops
  BY <1>1 DEF PicksUp, Drops
<1>2. CASE CalleeAnswers
  BY <1>2 DEF CalleeAnswers, Answers
<1>3. CASE SetGatherResult
  BY <1>3 DEF SetGatherResult, Pending
<1> QED
  BY <1>1, <1>2, <1>3 DEF Twilio

LEMMA QuietTypes ==
  ASSUME DialogInv, Quiet
  PROVE  DialogTypeOK'
<1>1. CASE Updated \/ UpdateRaises
  BY <1>1 DEF DialogInv, DialogTypeOK, Phases, Updated, UpdateRaises, Raise, NoFuture, convVars, twilioVars, dialVars
<1>2. CASE TransientError
  <2>1. tries' \in 0..(LLM_MAX_RETRIES - 1)
    BY <1>2, DialogAssumption DEF DialogInv, DialogTypeOK, TransientError
  <2> QED
    BY <1>2, <2>1 DEF DialogInv, DialogTypeOK, TransientError, convVars, twilioVars, dialVars
<1>4. CASE OpenAIRaises
  BY <1>4 DEF DialogInv, DialogTypeOK, Phases, OpenAIRaises, Raise, convVars, twilioVars, dialVars
<1>3. CASE Afterward
  BY <1>3, DialogAssumption
  DEF Afterward, HangUp, RecordingStored, RecordingRaises, Summarised, Raise,
      DialogInv, DialogTypeOK, Phases, convVars, twilioVars, dialVars
<1> QED
  BY <1>1, <1>2, <1>3, <1>4, DiallingTypes, TwilioTypes DEF Quiet

\* Where a quiet step leaves the phase.
LEMMA QuietPhases ==
  ASSUME DialogInv, Quiet
  PROVE  /\ Before' => Before
         /\ Speaking' => Speaking
         /\ Listening' => Listening
<1> USE DEF Before, Speaking, Listening, Raise
<1>1. CASE Dialling
  BY <1>1 DEF Dialling, DialAccepted, DialRaises, PollAnswered, PollRinging, PollRaises
<1>2. CASE Twilio
  BY <1>2 DEF Twilio, PicksUp, Drops, CalleeAnswers, SetGatherResult
<1>3. CASE Updated \/ UpdateRaises \/ TransientError \/ OpenAIRaises
  BY <1>3 DEF Updated, UpdateRaises, TransientError, OpenAIRaises
<1>4. CASE Afterward
  BY <1>4 DEF Afterward, HangUp, RecordingStored, RecordingRaises, Summarised
<1> QED
  BY <1>1, <1>2, <1>3, <1>4 DEF Quiet

\* Only Twilio's webhook and a refused update touch the future.
LEMMA QuietFutures ==
  ASSUME DialogInv, Quiet
  PROVE  /\ FutureInv'
         /\ future' = future \/ future' = NoFuture \/ (future = Pending /\ home = "api")
<1> USE DEF DialogInv, FutureInv, FutureHasReader, Pending, NoFuture
<1>1. CASE Dialling
  BY <1>1 DEF Dialling, DialAccepted, DialRaises, PollAnswered, PollRinging, PollRaises, Raise
<1>2. CASE PicksUp \/ Drops \/ CalleeAnswers
  BY <1>2 DEF PicksUp, Drops, CalleeAnswers
<1>3. CASE SetGatherResult
  BY <1>3 DEF SetGatherResult, DialogTypeOK
<1>4. CASE Updated \/ UpdateRaises
  BY <1>4 DEF Updated, UpdateRaises
<1>5. CASE TransientError \/ OpenAIRaises
  BY <1>5 DEF TransientError, OpenAIRaises, Raise
<1>6. CASE Afterward
  BY <1>6 DEF Afterward, HangUp, RecordingStored, RecordingRaises, Summarised, Raise
<1> QED
  BY <1>1, <1>2, <1>3, <1>4, <1>5, <1>6 DEF Quiet, Twilio

LEMMA QuietKeeps ==
  ASSUME DialogInv, Quiet
  PROVE  DialogInv'
<1>1. UNCHANGED <<home, lines, callee_said, turn, noise, closing, answer>>
  BY QuietLeaves
<1>2. /\ phase' = "dialing" => dials' < MAX_CALL_RETRIES /\ polls' = 0
      /\ phase' = "ringing" => polls' < CALL_ANSWER_TIMEOUT_SECONDS
  <2> USE DialogAssumption DEF DialogInv, TurnsInv, DialogTypeOK, Raise, dialVars
  <2>1. CASE Dialling
    BY <2>1 DEF Dialling, DialAccepted, DialRaises, PollAnswered, PollRinging, PollRaises
  <2>2. CASE Twilio
    BY <2>2 DEF Twilio, PicksUp, Drops, CalleeAnswers, SetGatherResult
  <2>3. CASE Updated \/ UpdateRaises \/ TransientError \/ OpenAIRaises
    BY <2>3 DEF Updated, UpdateRaises, TransientError, OpenAIRaises
  <2>4. CASE Afterward
    BY <2>4 DEF Afterward, HangUp, RecordingStored, RecordingRaises, Summarised
  <2> QED
    BY <2>1, <2>2, <2>3, <2>4 DEF Quiet
<1>3. TurnsInv'
  BY <1>1, <1>2, QuietPhases DEF DialogInv, TurnsInv
<1>4. MarkerInv'
  BY <1>1, QuietPhases DEF DialogInv, MarkerInv, MarkerEndsDialog, Unmarked
<1>5. DeafInv'
  BY <1>1, QuietPhases, QuietFutures DEF DialogInv, DeafInv, WorkerCallIsDeaf, NoFuture
<1> QED
  BY <1>3, <1>4, <1>5, QuietTypes, QuietFutures DEF DialogInv

-----------------------------------------------------------------------------
(* Steps at which the agent speaks or listens *)

\* The agent's next line, after one that had no marker.
LEMMA SayKeeps ==
  ASSUME DialogInv, NEW kind \in Kinds, NEW last \in BOOLEAN, Say(kind, last),
         kind \in Markers /\ lines # <<>> => last,
         home = "worker" /\ lines # <<>> => kind = "apology",
         \/ phase = "opening" /\ UNCHANGED <<turn, noise>>
         \/ Listening /\ UNCHANGED <<turn, noise>>
         \/ /\ Speaking /\ ~closing
            /\ turn < MAX_DIALOG_TURNS /\ turn' = turn + 1
            /\ noise' = noise + 1 /\ noise' < MAX_RETRY_ON_NOISE,
         UNCHANGED <<home, dialVars, twilioVars, verdict>>,
         callee_said' \in Seq(Nat), home = "worker" => callee_said' = callee_said,
         answer' \in Answers \cup {Silence}, home = "worker" => ~answer'.words,
         tries' \in 0..(LLM_MAX_RETRIES - 1)
  PROVE  DialogInv'
<1>1. /\ lines' = Append(lines, kind) /\ closing' = last /\ future' = Pending /\ phase' = "updating"
      /\ lines \in Seq(Kinds) /\ turn \in Nat /\ noise \in Nat
  BY DialogAssumption DEF Say, add_agent_message, DialogInv, DialogTypeOK
<1>2. /\ Len(lines) \in Nat /\ Len(lines') = Len(lines) + 1 /\ lines' \in Seq(Kinds)
      /\ lines'[Len(lines) + 1] = kind
      /\ \A i \in 1..Len(lines) : lines'[i] = lines[i]
      /\ DOMAIN lines = 1..Len(lines) /\ DOMAIN lines' = 1..(Len(lines) + 1)
  BY <1>1
<1>3. DialogTypeOK'
  BY <1>1, <1>2, DialogAssumption DEF DialogInv, DialogTypeOK, Phases, Pending, Silence, dialVars, twilioVars
<1>4. TurnsInv'
  BY <1>1, <1>2, DialogAssumption DEF DialogInv, TurnsInv, Speaking, Listening, Before
<1>5. FutureInv'
  BY <1>1 DEF FutureInv, FutureHasReader, Pending
<1>6. MarkerInv'
  <2>1. \A i \in 1..Len(lines) : lines[i] \in Markers => i = 1
    BY <1>2 DEF DialogInv, MarkerInv, MarkerEndsDialog, Unmarked, Listening, Speaking, TurnsInv, Before
  <2> QED
    BY <1>1, <1>2, <2>1 DEF MarkerInv, MarkerEndsDialog, Unmarked, Speaking, Listening
<1>7. DeafInv'
  <2> SUFFICES ASSUME home = "worker" PROVE DeafInv'
    BY DEF DeafInv
  <2>1. Len(lines') <= noise' + 1 /\ noise' < MAX_RETRY_ON_NOISE /\ noise' \in Nat
    BY <1>1, <1>2, DialogAssumption DEF DialogInv, TurnsInv, DeafInv, Speaking, Listening, Before
  <2>2. \A i \in DOMAIN lines' : i > 1 => lines'[i] \in {"apology", "giveup"}
    BY <1>1, <1>2 DEF DialogInv, DeafInv, WorkerCallIsDeaf
  <2>3. callee_said' = <<>>
    BY DEF DialogInv, DeafInv, WorkerCallIsDeaf
  <2>4. Len(lines') <= MAX_RETRY_ON_NOISE + 1
    BY <1>2, <2>1, DialogAssumption
  <2> QED
    BY <1>1, <2>1, <2>2, <2>3, <2>4 DEF DeafInv, WorkerCallIsDeaf, Pending, Listening
<1> QED
  BY <1>3, <1>4, <1>5, <1>6, <1>7 DEF DialogInv

LEMMA OpenedKeeps == ASSUME DialogInv, Opened PROVE DialogInv'
<1> PICK kind \in GenerateResponse : Say(kind, FALSE)
  BY DEF Opened
<1>1. /\ phase = "opening" /\ tries' = 0
      /\ UNCHANGED <<home, dialVars, twilioVars, answer, callee_said, turn, noise, verdict>>
  BY DEF Opened
<1>2. kind \in Kinds
  BY DEF GenerateResponse, Kinds
<1>3. lines = <<>> /\ callee_said \in Seq(Nat) /\ answer \in Answers \cup {Silence}
  BY <1>1 DEF DialogInv, TurnsInv, Before, DialogTypeOK
<1>4. home = "worker" => ~answer.words
  BY DEF DialogInv, DeafInv
<1>5. tries' \in 0..(LLM_MAX_RETRIES - 1)
  BY <1>1, DialogAssumption
<1> QED
  BY <1>1, <1>2, <1>3, <1>4, <1>5, SayKeeps

LEMMA RepliedKeeps == ASSUME DialogInv, Replied PROVE DialogInv'
<1> PICK kind \in GenerateResponse : Say(kind, is_complete(kind))
  BY DEF Replied
<1>1. /\ phase = "replying" /\ tries' = 0
      /\ UNCHANGED <<home, dialVars, twilioVars, answer, callee_said, turn, noise, verdict>>
  BY DEF Replied
<1>2. kind \in Kinds
  BY DEF GenerateResponse, Kinds
<1>3. home # "worker"
  BY <1>1 DEF DialogInv, DeafInv, Listening
<1>4. callee_said \in Seq(Nat) /\ answer \in Answers \cup {Silence}
  BY DEF DialogInv, DialogTypeOK
<1>5. tries' \in 0..(LLM_MAX_RETRIES - 1)
  BY <1>1, DialogAssumption
<1>6. Listening
  BY <1>1 DEF Listening
<1>7. is_complete(kind) \in BOOLEAN /\ (kind \in Markers => is_complete(kind))
  BY DEF is_complete
<1> HIDE DEF is_complete
<1> QED
  BY <1>1, <1>2, <1>3, <1>4, <1>5, <1>6, <1>7, SayKeeps

LEMMA IntentKeeps == ASSUME DialogInv, IntentDetected PROVE DialogInv'
<1>1. /\ phase = "intent" /\ callee_said' = Append(callee_said, answer.to)
      /\ UNCHANGED <<home, dialVars, twilioVars, answer, turn, noise, tries, verdict>>
  BY DEF IntentDetected, add_interlocutor_message
<1>2. home # "worker" /\ Listening
  BY <1>1 DEF DialogInv, DeafInv, Listening
<1>3. callee_said' \in Seq(Nat) /\ answer \in Answers \cup {Silence} /\ tries \in 0..(LLM_MAX_RETRIES - 1)
  BY <1>1 DEF DialogInv, DialogTypeOK, Answers, Silence
<1>4. CASE Say("failed", TRUE)
  <2>1. "failed" \in Kinds
    BY DEF Kinds, Markers
  <2> QED
    BY <1>1, <1>2, <1>3, <1>4, <2>1, SayKeeps
<1>5. CASE phase' = "replying" /\ UNCHANGED <<lines, closing, future>>
  <2>1. DialogTypeOK'
    BY <1>1, <1>3, <1>5 DEF DialogInv, DialogTypeOK, Phases, dialVars, twilioVars
  <2>2. TurnsInv'
    BY <1>1, <1>2, <1>5 DEF DialogInv, TurnsInv, Speaking, Listening, Before
  <2>3. FutureInv'
    BY <1>1, <1>5 DEF DialogInv, FutureInv, FutureHasReader
  <2>4. MarkerInv'
    BY <1>1, <1>2, <1>5 DEF DialogInv, MarkerInv, MarkerEndsDialog, Unmarked, Speaking, Listening
  <2>5. DeafInv'
    BY <1>1, <1>2 DEF DeafInv
  <2> QED
    BY <2>1, <2>2, <2>3, <2>4, <2>5 DEF DialogInv
<1> QED
  BY <1>4, <1>5 DEF IntentDetected

\* say_and_gather returns: an answer, or silence.
LEMMA ReturnKeeps == ASSUME DialogInv, GatherReturns PROVE DialogInv'
<1>1. /\ phase = "waiting" /\ answer' = future.result
      /\ UNCHANGED <<home, dialVars, twilioVars, tries, verdict>>
  BY DEF GatherReturns, ReceivedText
<1>2. answer' \in Answers \cup {Silence} /\ (home = "worker" => ~answer'.words)
  BY <1>1 DEF DialogInv, DialogTypeOK, FutureInv, DeafInv, Silence
<1>3. /\ lines \in Seq(Kinds) /\ callee_said \in Seq(Nat) /\ turn \in 0..MAX_DIALOG_TURNS
      /\ noise \in 0..MAX_RETRY_ON_NOISE /\ noise < MAX_RETRY_ON_NOISE /\ closing \in BOOLEAN
      /\ tries \in 0..(LLM_MAX_RETRIES - 1) /\ Len(lines) \in Nat
  BY <1>1 DEF DialogInv, DialogTypeOK, TurnsInv, Speaking
<1>4. CASE phase' = "hangup" /\ future' = NoFuture /\ UNCHANGED convVars
  <2>1. DialogTypeOK'
    BY <1>1, <1>2, <1>4 DEF DialogInv, DialogTypeOK, Phases, NoFuture, convVars, dialVars, twilioVars
  <2>2. TurnsInv' /\ FutureInv'
    BY <1>4 DEF DialogInv, TurnsInv, FutureInv, FutureHasReader, NoFuture, Speaking, Listening, Before, convVars
  <2>3. MarkerInv'
    BY <1>4 DEF DialogInv, MarkerInv, MarkerEndsDialog, Unmarked, Speaking, Listening, convVars
  <2>4. DeafInv'
    BY <1>1, <1>2, <1>4 DEF DialogInv, DeafInv, WorkerCallIsDeaf, NoFuture, Speaking, Listening, Before, convVars
  <2> QED
    BY <2>1, <2>2, <2>3, <2>4 DEF DialogInv
<1>5. CASE NoiseTurn /\ ~closing /\ noise' < MAX_RETRY_ON_NOISE
  <2>1. Say("apology", FALSE) /\ UNCHANGED callee_said /\ turn < MAX_DIALOG_TURNS
    /\ turn' = turn + 1 /\ noise' = noise + 1
    <3>1. turn < MAX_DIALOG_TURNS /\ turn' = turn + 1 /\ noise' = noise + 1 /\ UNCHANGED callee_said
      BY <1>5 DEF NoiseTurn
    <3>2. ~(noise' >= MAX_RETRY_ON_NOISE)
      BY <1>3, <1>5, <3>1, DialogAssumption
    <3> QED
      BY <1>5, <3>1, <3>2 DEF NoiseTurn
  <2>2. "apology" \in Kinds /\ "apology" \notin Markers /\ Speaking
    BY <1>1 DEF Kinds, Markers, Speaking
  <2> QED
    BY <1>1, <1>2, <1>3, <1>5, <2>1, <2>2, SayKeeps
<1>6. CASE NoiseTurn /\ ~closing /\ ~(noise' < MAX_RETRY_ON_NOISE)
  <2>1. /\ lines' = Append(lines, "giveup") /\ phase' = "hangup" /\ future' = NoFuture
        /\ UNCHANGED <<callee_said, closing>>
        /\ turn < MAX_DIALOG_TURNS /\ turn' = turn + 1 /\ noise' = noise + 1
    <3>1. turn < MAX_DIALOG_TURNS /\ turn' = turn + 1 /\ noise' = noise + 1 /\ UNCHANGED callee_said
      BY <1>6 DEF NoiseTurn
    <3>2. noise' >= MAX_RETRY_ON_NOISE
      BY <1>3, <1>6, <3>1, DialogAssumption
    <3> QED
      BY <1>6, <3>1, <3>2 DEF NoiseTurn, add_agent_message
  <2>2. /\ Len(lines') = Len(lines) + 1 /\ lines' \in Seq(Kinds)
        /\ lines'[Len(lines) + 1] = "giveup"
        /\ \A i \in 1..Len(lines) : lines'[i] = lines[i]
        /\ DOMAIN lines = 1..Len(lines) /\ DOMAIN lines' = 1..(Len(lines) + 1)
    BY <1>3, <2>1 DEF Kinds
  <2>3. DialogTypeOK'
    BY <1>1, <1>2, <1>3, <2>1, <2>2, DialogAssumption
    DEF DialogInv, DialogTypeOK, Phases, NoFuture, dialVars, twilioVars
  <2>4. TurnsInv' /\ FutureInv'
    BY <1>1, <1>3, <2>1, <2>2, DialogAssumption
    DEF DialogInv, TurnsInv, FutureInv, FutureHasReader, NoFuture, Speaking, Listening, Before
  <2>5. MarkerInv'
    <3>1. \A i \in 1..Len(lines) : lines[i] \in Markers => i = 1
      BY <1>1, <1>6, <2>2 DEF DialogInv, MarkerInv, MarkerEndsDialog, Unmarked, Speaking
    <3> QED
      BY <2>1, <2>2, <3>1 DEF MarkerInv, MarkerEndsDialog, Unmarked, Speaking, Listening, Markers
  <2>6. DeafInv'
    BY <1>1, <1>2, <1>3, <2>1, <2>2, DialogAssumption
    DEF DialogInv, DeafInv, WorkerCallIsDeaf, NoFuture, Speaking, Listening, Before
  <2> QED
    BY <2>3, <2>4, <2>5, <2>6 DEF DialogInv
<1>7. CASE SpeechTurn /\ ~closing
  <2>1. /\ phase' = "intent" /\ future' = NoFuture /\ UNCHANGED <<lines, callee_said, closing>>
        /\ turn < MAX_DIALOG_TURNS /\ turn' = turn + 1 /\ noise' = 0 /\ answer'.words
    BY <1>7 DEF SpeechTurn
  <2>2. DialogTypeOK'
    BY <1>1, <1>2, <1>3, <2>1, DialogAssumption
    DEF DialogInv, DialogTypeOK, Phases, NoFuture, dialVars, twilioVars
  <2>3. TurnsInv' /\ FutureInv'
    BY <1>3, <2>1, DialogAssumption
    DEF DialogInv, TurnsInv, FutureInv, FutureHasReader, NoFuture, Speaking, Listening, Before
  <2>4. MarkerInv'
    BY <1>1, <1>7, <2>1 DEF DialogInv, MarkerInv, MarkerEndsDialog, Unmarked, Speaking, Listening
  <2>5. DeafInv'
    BY <1>1, <1>2, <2>1 DEF DeafInv
  <2> QED
    BY <2>2, <2>3, <2>4, <2>5 DEF DialogInv
<1> QED
  BY <1>4, <1>5, <1>6, <1>7 DEF GatherReturns, LoopTurn, NoMoreTurns

LEMMA DialogStepInv == DialogInv /\ [DialogNext]_dialogVars => DialogInv'
<1> SUFFICES ASSUME DialogInv, [DialogNext]_dialogVars PROVE DialogInv'
  OBVIOUS
<1>1. CASE DialogNext
  BY <1>1, QuietKeeps, OpenedKeeps, RepliedKeeps, IntentKeeps, ReturnKeeps
  DEF DialogNext, Manager, Callee, Quiet, Dialling, Twilio, Afterward
<1>2. CASE UNCHANGED dialogVars
  BY <1>2 DEF dialogVars, dialVars, twilioVars, convVars, DialogInv, DialogTypeOK, TurnsInv, FutureInv,
              FutureHasReader, MarkerInv, MarkerEndsDialog, DeafInv, WorkerCallIsDeaf, Unmarked,
              Speaking, Listening, Before
<1> QED
  BY <1>1, <1>2

LEMMA DialogInductive == DialogSpec => []DialogInv
  BY DialogInitInv, DialogStepInv, PTL DEF DialogSpec

\* The agent speaks at most once per turn and once to open
\* (call_manager.py:146-195).
THEOREM DialogStaysBounded == DialogSpec => []DialogIsBounded
<1>1. DialogInv => DialogIsBounded
  BY DialogAssumption DEF DialogInv, TurnsInv, DialogTypeOK, DialogIsBounded
<1> QED
  BY <1>1, DialogInductive, PTL

\* No exit of say_and_gather leaves a future behind (twilio_adapter.py:183-203).
THEOREM FuturesAreForgotten == DialogSpec => []FutureHasReader
<1>1. DialogInv => FutureHasReader
  BY DEF DialogInv, FutureInv
<1> QED
  BY <1>1, DialogInductive, PTL

\* After the opening, a line with a marker is the last (call_manager.py:157-195).
THEOREM MarkersEndDialogs == DialogSpec => []MarkerEndsDialog
<1>1. DialogInv => MarkerEndsDialog
  BY DEF DialogInv, MarkerInv
<1> QED
  BY <1>1, DialogInductive, PTL

\* The worker's legacy calls hear nothing and give up (twilio_adapter.py:25-38).
THEOREM WorkerHearsNothing == DialogSpec => []WorkerCallIsDeaf
<1>1. DialogInv => WorkerCallIsDeaf
  BY DEF DialogInv, DeafInv, WorkerCallIsDeaf
<1> QED
  BY <1>1, DialogInductive, PTL

-----------------------------------------------------------------------------
(* No answer is heard twice: its number is in one place only *)

Sent(n) == \E a \in posted : a.to = n
Got(n)  == future.state = "done" /\ future.result.to = n
Took(n) == phase = "intent" /\ answer.to = n
Said(n) == \E i \in DOMAIN callee_said : callee_said[i] = n

HeardInv ==
  /\ gather \in 0..Len(lines)
  /\ \A n : Sent(n) \/ Got(n) \/ Took(n) \/ Said(n) => n \in 1..Len(lines) /\ n # gather
  /\ \A n : /\ Sent(n) => ~Got(n) /\ ~Took(n) /\ ~Said(n)
            /\ Said(n) => ~Got(n) /\ ~Took(n)
  /\ \A a, b \in posted : a.to = b.to => a = b
  /\ \A i, j \in DOMAIN callee_said : callee_said[i] = callee_said[j] => i = j
  \* The line that Twilio is being told to speak has no answer yet.
  /\ phase = "updating" =>
       /\ lines # <<>> /\ gather # Len(lines)
       /\ ~Sent(Len(lines)) /\ ~Got(Len(lines)) /\ ~Said(Len(lines))

\* Numbers only disappear.
LEMMA HeardLess ==
  ASSUME HeardInv, UNCHANGED <<lines, callee_said, answer>>, gather' \in {gather, 0}, posted' \subseteq posted,
         future' \in {future, NoFuture, Pending},
         phase' = "updating" => phase = "updating", phase' = "intent" => phase = "intent"
  PROVE  HeardInv'
<1>1. \A n : /\ Sent(n)' => Sent(n)
             /\ Got(n)' => Got(n)
             /\ Took(n)' => Took(n)
             /\ Said(n)' = Said(n)
  BY DEF Sent, Got, Took, Said, NoFuture, Pending
<1>2. gather' \in 0..Len(lines') /\ \A n \in 1..Len(lines) : n # gather => n # gather'
  BY DEF HeardInv
<1>3. \A n : Sent(n)' \/ Got(n)' \/ Took(n)' \/ Said(n)' => n \in 1..Len(lines') /\ n # gather'
  BY <1>1, <1>2 DEF HeardInv
<1>4. \A n : /\ Sent(n)' => ~Got(n)' /\ ~Took(n)' /\ ~Said(n)'
             /\ Said(n)' => ~Got(n)' /\ ~Took(n)'
  BY <1>1 DEF HeardInv
<1>5. phase' = "updating" =>
        /\ lines' # <<>> /\ gather' # Len(lines')
        /\ ~Sent(Len(lines))' /\ ~Got(Len(lines))' /\ ~Said(Len(lines))'
  BY <1>1, <1>2 DEF HeardInv, Sent, Got, Said
<1> QED
  BY <1>2, <1>3, <1>4, <1>5 DEF HeardInv


\* Another line: its number is new; the answer in hand may enter the history.
LEMMA HeardSpeaks ==
  ASSUME DialogTypeOK, HeardInv, NEW kind \in Kinds, lines' = Append(lines, kind),
         UNCHANGED <<gather, posted>>, future' = Pending, phase' = "updating",
         \/ UNCHANGED callee_said
         \/ phase = "intent" /\ future = NoFuture /\ callee_said' = Append(callee_said, answer.to)
  PROVE  HeardInv'
<1> DEFINE last == Len(lines) + 1
<1>1. Len(lines) \in Nat /\ Len(lines') = last /\ lines' # <<>> /\ gather \in Nat
  BY DEF DialogTypeOK
<1>2. \A n : Sent(n)' = Sent(n) /\ ~Got(n)' /\ ~Took(n)' /\ (Said(n)' => Said(n) \/ Took(n))
  <2>1. callee_said \in Seq(Nat)
    BY DEF DialogTypeOK
  <2> QED
    BY <2>1 DEF Sent, Got, Took, Said, Pending
<1>3. \A i, j \in DOMAIN callee_said' : callee_said'[i] = callee_said'[j] => i = j
  <2>1. callee_said \in Seq(Nat)
    BY DEF DialogTypeOK
  <2>2. CASE UNCHANGED callee_said
    BY <2>2 DEF HeardInv
  <2>3. CASE phase = "intent" /\ callee_said' = Append(callee_said, answer.to)
    <3>1. Took(answer.to)
      BY <2>3 DEF Took
    <3>2. \A i \in DOMAIN callee_said : callee_said[i] # answer.to
      BY <3>1 DEF HeardInv, Said
    <3>3. /\ DOMAIN callee_said = 1..Len(callee_said) /\ DOMAIN callee_said' = 1..(Len(callee_said) + 1)
          /\ Len(callee_said) \in Nat /\ callee_said'[Len(callee_said) + 1] = answer.to
          /\ \A i \in 1..Len(callee_said) : callee_said'[i] = callee_said[i]
      <4>1. answer.to \in Nat
        BY DEF DialogTypeOK, Answers, Silence
      <4> QED
        BY <2>1, <2>3, <4>1
    <3>4. \A i, j \in DOMAIN callee_said : callee_said[i] = callee_said[j] => i = j
      BY DEF HeardInv
    <3> QED
      BY <3>2, <3>3, <3>4
  <2> QED
    BY <2>2, <2>3
<1>4. gather' \in 0..last /\ gather' # last
  BY <1>1 DEF HeardInv
<1>5. \A n : Sent(n)' \/ Got(n)' \/ Took(n)' \/ Said(n)' => n \in 1..last /\ n # gather' /\ n # last
  BY <1>1, <1>2 DEF HeardInv
<1>6. \A n : /\ Sent(n)' => ~Got(n)' /\ ~Took(n)' /\ ~Said(n)'
             /\ Said(n)' => ~Got(n)' /\ ~Took(n)'
  BY <1>2 DEF HeardInv
<1>7. \A a, b \in posted' : a.to = b.to => a = b
  BY DEF HeardInv
<1>8. ~Sent(last)' /\ ~Got(last)' /\ ~Said(last)'
  BY <1>5
<1> QED
  BY <1>1, <1>3, <1>4, <1>5, <1>6, <1>7, <1>8 DEF HeardInv, Sent, Got, Said

LEMMA UpdatedHeard == ASSUME DialogTypeOK, HeardInv, Updated PROVE HeardInv'
<1>1. /\ phase = "updating" /\ gather' = Len(lines) /\ phase' = "waiting" /\ lines # <<>>
      /\ UNCHANGED <<lines, callee_said, posted, future, answer>>
  BY DEF Updated, HeardInv, convVars
<1>2. Len(lines) \in Nat /\ Len(lines) > 0
  BY <1>1 DEF DialogTypeOK
<1>3. \A n : Sent(n)' = Sent(n) /\ Got(n)' = Got(n) /\ ~Took(n)' /\ ~Took(n) /\ Said(n)' = Said(n)
  BY <1>1 DEF Sent, Got, Took, Said
<1> QED
  BY <1>1, <1>2, <1>3 DEF HeardInv

LEMMA AnswerHeard == ASSUME DialogTypeOK, HeardInv, CalleeAnswers PROVE HeardInv'
<1> \E new : posted' = posted \cup {new} /\ new.to = gather
  <2>1. PICK words \in BOOLEAN : posted' = posted \cup {[to |-> gather, words |-> words]}
    BY DEF CalleeAnswers
  <2>2. [to |-> gather, words |-> words].to = gather
    OBVIOUS
  <2> QED
    BY <2>1, <2>2
<1>1. PICK new : posted' = posted \cup {new} /\ new.to = gather
  OBVIOUS
<1>2. /\ gather # 0 /\ gather' = 0 /\ gather \in 1..Len(lines) /\ Len(lines) \in Nat
      /\ UNCHANGED <<lines, callee_said, future, answer, phase>>
  BY DEF CalleeAnswers, HeardInv, DialogTypeOK, convVars
<1>3. /\ \A n : Sent(n)' <=> (Sent(n) \/ n = gather)
      /\ \A n : (Got(n)' <=> Got(n)) /\ (Took(n)' <=> Took(n)) /\ (Said(n)' <=> Said(n))
  BY <1>1, <1>2 DEF Sent, Got, Took, Said
<1>4. \A a, b \in posted' : a.to = b.to => a = b
  BY <1>1 DEF HeardInv, Sent
<1>5. phase' = "updating" =>
        /\ lines' # <<>> /\ gather' # Len(lines')
        /\ ~Sent(Len(lines))' /\ ~Got(Len(lines))' /\ ~Said(Len(lines))'
  <2> SUFFICES ASSUME phase' = "updating"
               PROVE  /\ lines' # <<>> /\ gather' # Len(lines)
                      /\ ~Sent(Len(lines))' /\ ~Got(Len(lines))' /\ ~Said(Len(lines))'
    BY <1>2
  <2>1. /\ lines # <<>> /\ gather # Len(lines)
        /\ ~Sent(Len(lines)) /\ ~Got(Len(lines)) /\ ~Said(Len(lines))
    BY <1>2 DEF HeardInv
  <2>2. (\A a \in posted' : a.to # Len(lines)) /\ ~Got(Len(lines))' /\ ~Said(Len(lines))'
    BY <1>1, <1>2, <2>1 DEF Sent, Got, Said
  <2> QED
    BY <1>2, <2>1, <2>2 DEF Sent
<1>6. \A n : Sent(n)' \/ Got(n)' \/ Took(n)' \/ Said(n)' => n \in 1..Len(lines') /\ n # gather'
  BY <1>2, <1>3 DEF HeardInv
<1>7. \A n : /\ Sent(n)' => ~Got(n)' /\ ~Took(n)' /\ ~Said(n)'
             /\ Said(n)' => ~Got(n)' /\ ~Took(n)'
  BY <1>3 DEF HeardInv
<1> QED
  BY <1>2, <1>4, <1>5, <1>6, <1>7 DEF HeardInv

LEMMA ResultHeard == ASSUME DialogTypeOK, HeardInv, FutureInv, SetGatherResult PROVE HeardInv'
<1>1. PICK a \in posted :
        /\ posted' = posted \ {a}
        /\ future' = IF home = "api" /\ future = Pending THEN [state |-> "done", result |-> a] ELSE future
  BY DEF SetGatherResult
<1>2. UNCHANGED <<gather, lines, callee_said, answer, phase>>
  BY DEF SetGatherResult, convVars
<1>3. CASE future' = future
  BY <1>1, <1>2, <1>3, HeardLess
<1>4. CASE future = Pending /\ future' = [state |-> "done", result |-> a]
  <2>1. /\ \A n : Sent(n)' => Sent(n) /\ n # a.to
        /\ \A n : ~Got(n) /\ (Got(n)' <=> n = a.to)
        /\ \A n : (Took(n)' <=> Took(n)) /\ (Said(n)' <=> Said(n))
    <3>1. \A b \in posted' : b \in posted /\ b.to # a.to
      BY <1>1 DEF HeardInv
    <3> QED
      BY <1>2, <1>4, <3>1 DEF Sent, Got, Took, Said, Pending
  <2>2. Sent(a.to) /\ phase # "intent"
    BY <1>1, <1>4 DEF Sent, FutureInv, FutureHasReader, Pending, NoFuture
  <2>3. \A x, y \in posted' : x.to = y.to => x = y
    BY <1>1 DEF HeardInv
  <2>4. \A n : Sent(n)' \/ Got(n)' \/ Took(n)' \/ Said(n)' => n \in 1..Len(lines') /\ n # gather'
    BY <1>2, <2>1, <2>2 DEF HeardInv
  <2>5. \A n : /\ Sent(n)' => ~Got(n)' /\ ~Took(n)' /\ ~Said(n)'
               /\ Said(n)' => ~Got(n)' /\ ~Took(n)'
    BY <2>1, <2>2 DEF HeardInv
  <2>6. phase' = "updating" =>
          /\ lines' # <<>> /\ gather' # Len(lines')
          /\ ~Sent(Len(lines))' /\ ~Got(Len(lines))' /\ ~Said(Len(lines))'
    <3>1. phase = "updating" => ~Sent(Len(lines)) /\ a.to # Len(lines)
      BY <2>2 DEF HeardInv
    <3> QED
      BY <1>2, <2>1, <3>1 DEF HeardInv, Sent, Got, Said
  <2> QED
    BY <1>2, <2>3, <2>4, <2>5, <2>6 DEF HeardInv
<1> QED
  BY <1>1, <1>3, <1>4

LEMMA ReturnHeard == ASSUME DialogInv, HeardInv, GatherReturns PROVE HeardInv'
<1>1. phase = "waiting" /\ answer' = future.result /\ UNCHANGED <<gather, posted>>
  BY DEF GatherReturns, ReceivedText, twilioVars
<1>2. DialogTypeOK /\ \A n : ~Took(n)
  BY <1>1 DEF DialogInv, Took
\* The agent apologises, or gives up, over silence.
<1>3. CASE NoiseTurn
  <2>1. /\ UNCHANGED callee_said
        /\ \/ lines' = Append(lines, "giveup") /\ phase' = "hangup" /\ future' = NoFuture
           \/ lines' = Append(lines, "apology") /\ phase' = "updating" /\ future' = Pending
    BY <1>3 DEF NoiseTurn, Say, add_agent_message
  <2>2. CASE lines' = Append(lines, "apology") /\ phase' = "updating" /\ future' = Pending
    <3>1. "apology" \in Kinds
      BY DEF Kinds
    <3> QED
      BY <1>1, <1>2, <2>1, <2>2, <3>1, HeardSpeaks
  <2>3. CASE lines' = Append(lines, "giveup") /\ phase' = "hangup" /\ future' = NoFuture
    <3>1. Len(lines) \in Nat /\ Len(lines') = Len(lines) + 1
      BY <1>2, <2>3 DEF DialogTypeOK, Kinds
    <3>2. \A n : Sent(n)' = Sent(n) /\ ~Got(n)' /\ ~Took(n)' /\ Said(n)' = Said(n)
      BY <1>1, <2>1, <2>3 DEF Sent, Got, Took, Said, NoFuture
    <3> QED
      BY <1>1, <2>1, <2>3, <3>1, <3>2 DEF HeardInv
  <2> QED
    BY <2>1, <2>2, <2>3
\* An answer, or the end.
<1>4. CASE UNCHANGED <<lines, callee_said>> /\ future' = NoFuture
           /\ (phase' = "hangup" \/ (phase' = "intent" /\ answer'.words))
  <2>1. \A n : Sent(n)' = Sent(n) /\ ~Got(n)' /\ Said(n)' = Said(n)
    BY <1>1, <1>4 DEF Sent, Got, Said, NoFuture
  <2>2. \A n : Took(n)' => Got(n)
    <3>1. phase' = "intent" => future.state = "done"
      BY <1>1, <1>4 DEF DialogInv, DialogTypeOK, FutureInv, Silence
    <3> QED
      BY <1>1, <3>1 DEF Took, Got
  <2> QED
    BY <1>1, <1>4, <2>1, <2>2 DEF HeardInv
<1>5. CASE closing
  <2>1. lines' = lines /\ callee_said' = callee_said /\ future' = NoFuture /\ phase' = "hangup"
    BY <1>5 DEF GatherReturns, convVars
  <2> QED
    BY <1>4, <2>1
<1>6. CASE ~closing
  <2>1. NoMoreTurns \/ NoiseTurn \/ SpeechTurn
    BY <1>6 DEF GatherReturns, LoopTurn
  <2>2. CASE NoMoreTurns
    <3>1. lines' = lines /\ callee_said' = callee_said /\ future' = NoFuture /\ phase' = "hangup"
      BY <2>2 DEF NoMoreTurns, convVars
    <3> QED
      BY <1>4, <3>1
  <2>3. CASE SpeechTurn
    BY <1>4, <2>3 DEF SpeechTurn
  <2> QED
    BY <1>3, <2>1, <2>2, <2>3
<1> QED
  BY <1>5, <1>6

LEMMA SpokenHeard == ASSUME DialogInv, HeardInv, Opened \/ Replied \/ IntentDetected PROVE HeardInv'
<1>1. DialogTypeOK /\ UNCHANGED <<gather, posted, answer>>
  BY DEF DialogInv, Opened, Replied, IntentDetected, twilioVars
<1>2. CASE Opened \/ Replied
  <2>1. PICK kind \in GenerateResponse : Say(kind, FALSE) \/ Say(kind, is_complete(kind))
    BY <1>2 DEF Opened, Replied
  <2>2. kind \in Kinds /\ lines' = Append(lines, kind) /\ future' = Pending /\ phase' = "updating"
    BY <2>1 DEF GenerateResponse, Kinds, Say, add_agent_message
  <2> QED
    BY <1>1, <1>2, <2>2, HeardSpeaks DEF Opened, Replied
<1>3. CASE IntentDetected
  <2>1. phase = "intent" /\ callee_said' = Append(callee_said, answer.to) /\ future = NoFuture
    BY <1>3 DEF IntentDetected, add_interlocutor_message, DialogInv, FutureInv, FutureHasReader
  <2>2. CASE Say("failed", TRUE)
    <3>1. "failed" \in Kinds
      BY DEF Kinds, Markers
    <3> QED
      BY <1>1, <2>1, <2>2, <3>1, HeardSpeaks DEF Say, add_agent_message
  <2>3. CASE phase' = "replying" /\ UNCHANGED <<lines, closing, future>>
    <3>1. callee_said \in Seq(Nat) /\ answer.to \in Nat
      BY <1>1 DEF DialogTypeOK, Answers, Silence
    <3>2. Took(answer.to)
      BY <2>1 DEF Took
    <3>3. /\ DOMAIN callee_said = 1..Len(callee_said) /\ DOMAIN callee_said' = 1..(Len(callee_said) + 1)
          /\ Len(callee_said) \in Nat /\ callee_said'[Len(callee_said) + 1] = answer.to
          /\ \A i \in 1..Len(callee_said) : callee_said'[i] = callee_said[i]
      BY <2>1, <3>1
    <3>4. \A n : Sent(n)' = Sent(n) /\ Got(n)' = Got(n) /\ ~Took(n)' /\ (Said(n)' => Said(n) \/ Took(n)) /\ ~Got(n)
      BY <1>1, <2>1, <2>3, <3>3 DEF Sent, Got, Took, Said, NoFuture
    <3>5. \A i, j \in DOMAIN callee_said' : callee_said'[i] = callee_said'[j] => i = j
      <4>1. \A i \in DOMAIN callee_said : callee_said[i] # answer.to
        BY <3>2 DEF HeardInv, Said
      <4> QED
        BY <3>3, <4>1 DEF HeardInv
    <3> QED
      BY <1>1, <2>3, <3>4, <3>5 DEF HeardInv
  <2> QED
    BY <1>3, <2>2, <2>3 DEF IntentDetected
<1> QED
  BY <1>2, <1>3

LEMMA QuietHeard == ASSUME DialogInv, HeardInv, Quiet PROVE HeardInv'
<1>1. UNCHANGED <<lines, callee_said, answer>>
  BY QuietLeaves
<1>2. CASE Dialling
  BY <1>1, <1>2, HeardLess
  DEF Dialling, DialAccepted, DialRaises, PollAnswered, PollRinging, PollRaises, Raise, twilioVars
<1>3. CASE PicksUp \/ Drops
  BY <1>1, <1>3, HeardLess DEF PicksUp, Drops
<1>4. CASE CalleeAnswers \/ SetGatherResult
  BY <1>4, AnswerHeard, ResultHeard DEF DialogInv
<1>5. CASE Updated
  BY <1>5, UpdatedHeard DEF DialogInv
<1>6. CASE UpdateRaises \/ TransientError \/ OpenAIRaises
  BY <1>1, <1>6, HeardLess DEF UpdateRaises, TransientError, OpenAIRaises, Raise, twilioVars
<1>7. CASE Afterward
  BY <1>1, <1>7, HeardLess
  DEF Afterward, HangUp, RecordingStored, RecordingRaises, Summarised, Raise, twilioVars
<1> QED
  BY <1>2, <1>3, <1>4, <1>5, <1>6, <1>7 DEF Quiet, Twilio

LEMMA HeardInitInv == DialogInit => HeardInv
  BY DEF DialogInit, HeardInv, Sent, Got, Took, Said, NoFuture

LEMMA HeardStepInv == DialogInv /\ HeardInv /\ [DialogNext]_dialogVars => HeardInv'
<1> SUFFICES ASSUME DialogInv, HeardInv, [DialogNext]_dialogVars PROVE HeardInv'
  OBVIOUS
<1>1. CASE DialogNext
  BY <1>1, QuietHeard, SpokenHeard, ReturnHeard
  DEF DialogNext, Manager, Callee, Quiet, Dialling, Twilio, Afterward
<1>2. CASE UNCHANGED dialogVars
  BY <1>2, HeardLess DEF dialogVars, twilioVars, convVars
<1> QED
  BY <1>1, <1>2

LEMMA HeardInductive == DialogSpec => []HeardInv
  BY HeardInitInv, HeardStepInv, DialogInductive, PTL DEF DialogSpec

\* Every answer of the callee enters the history at most once, after the line it
\* answers (twilio_adapter.py:35-38, call_manager.py:169-171).
THEOREM NoAnswerHeardTwice == DialogSpec => []AnswersHeardOnce
<1>1. HeardInv => AnswersHeardOnce
  BY DEF HeardInv, AnswersHeardOnce, Said
<1> QED
  BY <1>1, HeardInductive, PTL

=============================================================================
