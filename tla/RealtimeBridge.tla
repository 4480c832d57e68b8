---------------------------- MODULE RealtimeBridge ----------------------------
(***************************************************************************)
(* One realtime call inside RealtimeBridge.run                             *)
(* (integrations/realtime_bridge.py): the pump that reads OpenAI's events, *)
(* the idle and duration timers, and the ways to a hang-up.  All of them   *)
(* are coroutines of one event loop, so a step is what runs between two    *)
(* awaits.                                                                 *)
(*                                                                         *)
(* A hang-up is arranged by whoever sets an outcome: it marks the hang-up  *)
(* pending, starts the backup timer and asks OpenAI for a farewell.  The   *)
(* next audio.done is taken for the end of that farewell; it starts a      *)
(* drain task, which hangs up after Twilio's buffer has emptied or a       *)
(* deadline has passed.  _hangup_done makes the hang-up itself idempotent. *)
(*                                                                         *)
(* OpenAI holds one response at a time.  Left out: the audio itself, the   *)
(* marks and transcriptions a drain waits for (it may end at any time, by  *)
(* its deadlines), the truncation sent on a barge-in, tokens, and how long *)
(* the timers are.                                                         *)
(***************************************************************************)
EXTENDS Integers

CONSTANTS
  MAX_SILENCE_NUDGES,
  MaxAnswers,   \* bound: responses OpenAI starts in a call
  MaxSpeech     \* bound: times the callee begins to speak

ASSUME BridgeAssumption ==
  /\ MAX_SILENCE_NUDGES \in Nat \ {0}
  /\ MaxAnswers \in Nat
  /\ MaxSpeech \in Nat

VARIABLES
  run,       \* "starting", "running", "over", or "failed" (init_failed)
  open,      \* is the socket to OpenAI open?
  stream,    \* is the call, and with it Twilio's media stream, up?
  outcome,   \* who set it: "reported" by the model, "silence", "duration"
  pending,   \* _hangup_pending
  backup,    \* _backup_hangup_task: "none", "armed", "fired"
  drains,    \* _hangup_after_drain tasks running
  done,      \* _hangup_done
  hangups,   \* history: hang-ups asked of Twilio
  idle,      \* is the idle timer armed?
  nudges,    \* _silence_nudges
  watchdog,  \* is the duration timer armed?
  acking,    \* the pump awaits sending the tool's acknowledgement
  said,      \* did the last agent line contain a farewell?
  response,  \* OpenAI's response in progress, and whether its audio is to end
  wanted,    \* responses the bridge has asked for
  heard,     \* has the callee spoken since OpenAI's last turn?
  answers, speeches  \* counters for the bounds

hangupVars == <<outcome, pending, backup, drains, done, hangups>>
timerVars  == <<idle, nudges, watchdog>>
openaiVars == <<acking, said, response, wanted, heard, answers, speeches>>
bridgeVars == <<run, open, stream, hangupVars, timerVars, openaiVars>>

Requested == {"turn", "nudge", "farewell"}
NoResponse == [kind |-> "none", audio |-> FALSE]

StatesOK ==
  /\ run \in {"starting", "running", "over", "failed"}
  /\ outcome \in {"none", "reported", "silence", "duration"}
  /\ backup \in {"none", "armed", "fired"}
  /\ response \in [kind : Requested \cup {"none"}, audio : BOOLEAN]
  /\ wanted \subseteq Requested

FlagsOK ==
  /\ open \in BOOLEAN /\ stream \in BOOLEAN
  /\ pending \in BOOLEAN /\ done \in BOOLEAN
  /\ idle \in BOOLEAN /\ watchdog \in BOOLEAN
  /\ acking \in BOOLEAN /\ said \in BOOLEAN /\ heard \in BOOLEAN

CountsOK ==
  /\ drains \in Nat /\ hangups \in Nat /\ nudges \in Nat
  /\ answers \in 0..MaxAnswers /\ speeches \in 0..MaxSpeech

BridgeTypeOK == StatesOK /\ FlagsOK /\ CountsOK

BridgeInit ==
  /\ run = "starting" /\ open = FALSE /\ stream = TRUE
  /\ outcome = "none" /\ pending = FALSE /\ backup = "none"
  /\ drains = 0 /\ done = FALSE /\ hangups = 0
  /\ idle = FALSE /\ nudges = 0 /\ watchdog = FALSE
  /\ acking = FALSE /\ said = FALSE /\ response = NoResponse
  /\ wanted = {} /\ heard = FALSE /\ answers = 0 /\ speeches = 0

-----------------------------------------------------------------------------
(* Start and end of run *)

\* Connect, configure the session, ask for the opening line.
Connect ==
  /\ run = "starting"
  /\ run' = "running" /\ open' = TRUE /\ watchdog' = TRUE /\ wanted' = {"turn"}
  /\ UNCHANGED <<stream, hangupVars, idle, nudges,
                 acking, said, response, heard, answers, speeches>>

\* Any exception before the session is initialised.
InitFails ==
  /\ run = "starting"
  /\ run' = "failed"
  /\ UNCHANGED <<open, stream, hangupVars, timerVars, openaiVars>>

\* The socket to OpenAI closes, or a pump raises.  Events that came before the
\* close are handled before it.
OpenAICloses ==
  /\ run = "running" /\ open
  /\ open' = FALSE
  /\ UNCHANGED <<run, stream, hangupVars, timerVars, openaiVars>>

\* The callee hangs up.
CalleeHangsUp ==
  /\ stream
  /\ stream' = FALSE
  /\ UNCHANGED <<run, open, hangupVars, timerVars, openaiVars>>

\* The first pump to end cancels the other one; both timers are cancelled, the
\* drain and backup tasks are not.
RunEnds ==
  /\ run = "running" /\ ~(open /\ stream)
  /\ run' = "over" /\ open' = FALSE /\ idle' = FALSE /\ watchdog' = FALSE
  /\ acking' = FALSE
  /\ UNCHANGED <<stream, hangupVars, nudges,
                 said, response, wanted, heard, answers, speeches>>

-----------------------------------------------------------------------------
(* Hanging up *)

\* Mutant: the backup timer is not started.
BackupForgotten == UNCHANGED backup

ScheduleBackup == backup' = IF backup = "none" THEN "armed" ELSE backup

\* Mutant: Twilio is asked whenever somebody comes to hang up.
ForceHangupAgain ==
  /\ done' = TRUE /\ hangups' = hangups + 1
  /\ stream' \in {FALSE, stream}

\* _force_hangup.  Twilio may refuse; that is logged and not tried again.
ForceHangup ==
  IF done
    THEN UNCHANGED <<done, hangups, stream>>
    ELSE /\ done' = TRUE /\ hangups' = hangups + 1
         /\ stream' \in {FALSE, stream}

\* Mutant: a drain task that ends twice.
DrainEndsTwice ==
  /\ drains' = drains - 1
  /\ ForceHangup
  /\ UNCHANGED <<run, open, outcome, pending, backup, timerVars, openaiVars>>

\* _hangup_after_drain comes to its end.
DrainEnds ==
  /\ drains > 0
  /\ drains' = drains - 1
  /\ ForceHangup
  /\ UNCHANGED <<run, open, outcome, pending, backup, timerVars, openaiVars>>

\* The backup timer's sleep is over.
BackupFires ==
  /\ backup = "armed"
  /\ backup' = "fired"
  /\ ForceHangup
  /\ UNCHANGED <<run, open, outcome, pending, drains, timerVars, openaiVars>>

-----------------------------------------------------------------------------
(* OpenAI's events *)

\* OpenAI answers the callee or a request, one at a time.
ResponseStarts ==
  /\ run = "running" /\ open /\ response = NoResponse
  /\ answers < MaxAnswers
  /\ \E kind \in wanted \cup (IF heard THEN {"turn"} ELSE {}) :
       /\ response' = [kind |-> kind, audio |-> TRUE]
       /\ wanted' = wanted \ {kind}
       /\ heard' = (heard /\ kind # "turn")
  /\ answers' = answers + 1
  /\ UNCHANGED <<run, open, stream, hangupVars, timerVars, acking, said, speeches>>

\* A response.create while a response is in progress is answered by an error
\* event, which is logged.
RequestRejected ==
  /\ run = "running" /\ open /\ response # NoResponse
  /\ \E kind \in wanted : wanted' = wanted \ {kind}
  /\ UNCHANGED <<run, open, stream, hangupVars, timerVars,
                 acking, said, response, heard, answers, speeches>>

Pumping == run = "running" /\ open /\ ~acking

\* Mutant: every end of audio is taken for the end of a farewell.
DrainAfterAnyAudio ==
  /\ Pumping /\ response.audio
  /\ response' = [response EXCEPT !.audio = FALSE]
  /\ pending' = FALSE /\ drains' = drains + 1
  /\ UNCHANGED <<run, open, stream, outcome, backup, done, hangups, timerVars,
                 acking, said, wanted, heard, answers, speeches>>

\* response.output_audio.done, also sent for a response that was interrupted.
AudioDone ==
  /\ Pumping /\ response.audio
  /\ response' = [response EXCEPT !.audio = FALSE]
  /\ IF pending
       THEN pending' = FALSE /\ drains' = drains + 1 /\ UNCHANGED idle
       ELSE idle' = TRUE /\ UNCHANGED <<pending, drains>>
  /\ UNCHANGED <<run, open, stream, outcome, backup, done, hangups, nudges, watchdog,
                 acking, said, wanted, heard, answers, speeches>>

\* response.output_audio_transcript.done: remember the agent's line.
TranscriptDone ==
  /\ Pumping /\ response # NoResponse
  /\ said' \in BOOLEAN
  /\ UNCHANGED <<run, open, stream, hangupVars, timerVars,
                 acking, response, wanted, heard, answers, speeches>>

\* response.done.  A response that only called the tool has had no audio.
ResponseDone ==
  /\ Pumping /\ response # NoResponse
  /\ response' = NoResponse
  /\ UNCHANGED <<run, open, stream, hangupVars, timerVars,
                 acking, said, wanted, heard, answers, speeches>>

\* input_audio_buffer.speech_started.
SpeechStarted ==
  /\ Pumping /\ stream
  /\ speeches < MaxSpeech
  /\ speeches' = speeches + 1
  /\ idle' = FALSE /\ nudges' = 0 /\ heard' = TRUE
  /\ UNCHANGED <<run, open, stream, hangupVars, watchdog,
                 acking, said, response, wanted, answers>>

\* report_outcome: the first report is stored and acknowledged, later ones are
\* ignored.
ReportOutcome ==
  /\ Pumping /\ response # NoResponse
  /\ outcome = "none"
  /\ outcome' = "reported" /\ acking' = TRUE
  /\ UNCHANGED <<run, open, stream, pending, backup, drains, done, hangups, timerVars,
                 said, response, wanted, heard, answers, speeches>>

\* The acknowledgement is sent: arrange the hang-up.
Acknowledged ==
  /\ acking /\ open
  /\ acking' = FALSE
  /\ pending' = TRUE
  /\ ScheduleBackup
  /\ IF said
       THEN drains' = drains + 1 /\ UNCHANGED wanted
       ELSE wanted' = wanted \cup {"farewell"} /\ UNCHANGED drains
  /\ UNCHANGED <<run, open, stream, outcome, done, hangups, timerVars,
                 said, response, heard, answers, speeches>>

-----------------------------------------------------------------------------
(* Timers *)

\* _handle_idle_timeout, with the socket open: a nudge, or after the last one
\* an outcome and the hang-up.  Neither looks at what has been decided before.
Nudge ==
  /\ nudges + 1 < MAX_SILENCE_NUDGES
  /\ wanted' = wanted \cup {"nudge"}
  /\ UNCHANGED <<outcome, pending, backup>>

GiveUp ==
  /\ nudges + 1 >= MAX_SILENCE_NUDGES
  /\ wanted' = wanted \cup {"farewell"}
  /\ outcome' = "silence" /\ pending' = TRUE
  /\ ScheduleBackup

IdleFires ==
  /\ idle
  /\ idle' = FALSE
  /\ IF open
       THEN nudges' = nudges + 1 /\ (Nudge \/ GiveUp)
       ELSE UNCHANGED <<nudges, wanted, outcome, pending, backup>>
  /\ UNCHANGED <<run, open, stream, drains, done, hangups, watchdog,
                 acking, said, response, heard, answers, speeches>>

\* _handle_duration_timeout.
DurationFires ==
  /\ watchdog
  /\ watchdog' = FALSE
  /\ IF open /\ ~pending /\ outcome = "none"
       THEN /\ idle' = FALSE
            /\ outcome' = "duration" /\ pending' = TRUE
            /\ ScheduleBackup
            /\ wanted' = wanted \cup {"farewell"}
       ELSE UNCHANGED <<idle, outcome, pending, backup, wanted>>
  /\ UNCHANGED <<run, open, stream, drains, done, hangups, nudges,
                 acking, said, response, heard, answers, speeches>>

-----------------------------------------------------------------------------
Loop == Acknowledged \/ RunEnds

BridgeNext ==
  \/ Connect \/ InitFails
  \/ OpenAICloses \/ CalleeHangsUp
  \/ ResponseStarts \/ RequestRejected
  \/ AudioDone \/ TranscriptDone \/ ResponseDone \/ SpeechStarted
  \/ ReportOutcome
  \/ Loop
  \/ DrainEnds \/ BackupFires
  \/ IdleFires \/ DurationFires

BridgeSpec == BridgeInit /\ [][BridgeNext]_bridgeVars

\* Timers fire and the event loop runs its coroutines; nothing obliges OpenAI to
\* answer, the callee to speak or either to hang up.
FairBridgeSpec ==
  /\ BridgeSpec
  /\ WF_bridgeVars(Loop)
  /\ WF_bridgeVars(DrainEnds)
  /\ WF_bridgeVars(BackupFires)
  /\ WF_bridgeVars(IdleFires)
  /\ WF_bridgeVars(DurationFires)

-----------------------------------------------------------------------------
(* Held *)

\* Twilio is asked to hang up at most once, although several drain tasks and the
\* backup timer may all come to it.
HangsUpOnce == hangups <= 1

\* The bridge never hangs up a call nothing has been decided about: a drain, a
\* backup timer and a hang-up all follow an outcome.
HangupHasOutcome == done => outcome # "none"

\* Whoever sets an outcome leaves the bridge with a hang-up that no longer
\* depends on OpenAI.  This is what lets the watchdog and a second report do
\* nothing when they find an outcome.
HangupInHand ==
  run = "running" /\ ~acking /\ outcome # "none" => done \/ backup = "armed"

\* A running bridge ends or hangs up, even if OpenAI and the callee go silent.
CallIsBounded == run = "running" ~> run = "over" \/ done

-----------------------------------------------------------------------------
(* Stated by the repository, refuted *)

\* "Watchdog triggers graceful farewell + hangup" (README): when the watchdog has
\* decided, the drain before the hang-up begins with the end of the farewell.
\* It begins with the end of whatever the agent was saying.
WatchdogSaysFarewell ==
  [][outcome = "duration" /\ drains' > drains => response.kind = "farewell"]_bridgeVars
=============================================================================
