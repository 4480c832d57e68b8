---------------------------- MODULE BridgeProofs -----------------------------
(***************************************************************************)
(* A realtime call.  Its hang-up follows an outcome, happens once, and     *)
(* once there is an outcome no longer depends on OpenAI; and what the      *)
(* agent said is played out before it, unless a cleared chunk's mark was   *)
(* taken for another.  The transcript it leaves has every line once.       *)
(***************************************************************************)
EXTENDS RealtimeBridge, BridgeMedia, FiniteSetTheorems, SequenceTheorems, WellFoundedInduction, TLAPS

(* The hang-up *)

\* Whatever belongs to the event loop of a running bridge is gone with it.
LoopInv ==
  /\ idle \/ watchdog \/ acking \/ open => run = "running"
  /\ run = "starting" => outcome = "none"

\* Every step towards a hang-up follows an outcome.
DecisionInv ==
  pending \/ acking \/ drains > 0 \/ backup # "none" \/ done => outcome # "none"

\* The count of hang-ups is what _hangup_done says.
CountInv ==
  /\ hangups = IF done THEN 1 ELSE 0
  /\ backup = "fired" => done

BridgeInv == BridgeTypeOK /\ LoopInv /\ DecisionInv /\ CountInv /\ HangupInHand

-----------------------------------------------------------------------------
LEMMA BridgeInitInv == BridgeInit => BridgeInv
<1> SUFFICES ASSUME BridgeInit PROVE BridgeInv
  OBVIOUS
<1>1. StatesOK /\ FlagsOK
  BY DEF BridgeInit, StatesOK, FlagsOK, NoResponse, Requested
<1>2. CountsOK
  BY BridgeAssumption DEF BridgeInit, CountsOK
<1>3. LoopInv /\ DecisionInv /\ CountInv /\ HangupInHand
  BY DEF BridgeInit, LoopInv, DecisionInv, CountInv, HangupInHand
<1> QED
  BY <1>1, <1>2, <1>3 DEF BridgeInv, BridgeTypeOK

\* Types, one group of actions at a time.
LEMMA StatesStep ==
  ASSUME BridgeTypeOK, BridgeNext
  PROVE  StatesOK'
<1> USE DEF BridgeTypeOK, hangupVars, timerVars, openaiVars, StatesOK, NoResponse, Requested
<1>1. CASE Connect \/ InitFails \/ OpenAICloses \/ CalleeHangsUp \/ RunEnds
  BY <1>1 DEF Connect, InitFails, OpenAICloses, CalleeHangsUp, RunEnds
<1>2. CASE DrainEnds \/ BackupFires
  BY <1>2 DEF DrainEnds, BackupFires, ForceHangup
<1>3. CASE ResponseStarts
  BY <1>3 DEF ResponseStarts
<1>4. CASE RequestRejected
  BY <1>4 DEF RequestRejected
<1>11. CASE TranscriptDone
  BY <1>11 DEF TranscriptDone
<1>12. CASE ResponseDone
  BY <1>12 DEF ResponseDone
<1>5. CASE AudioDone
  BY <1>5 DEF AudioDone
<1>6. CASE SpeechStarted \/ ReportOutcome
  BY <1>6 DEF SpeechStarted, ReportOutcome
<1>7. CASE Acknowledged
  BY <1>7 DEF Acknowledged, ScheduleBackup
<1>8. CASE IdleFires
  BY <1>8 DEF IdleFires, Nudge, GiveUp, ScheduleBackup
<1>9. CASE DurationFires
  BY <1>9 DEF DurationFires, ScheduleBackup
<1> QED
  BY <1>1, <1>2, <1>3, <1>4, <1>5, <1>6, <1>7, <1>8, <1>9, <1>11, <1>12
  DEF BridgeNext, Loop

LEMMA FlagsStep ==
  ASSUME BridgeTypeOK, BridgeNext
  PROVE  FlagsOK'
<1> USE DEF BridgeTypeOK, hangupVars, timerVars, openaiVars, FlagsOK
<1>1. CASE Connect \/ InitFails \/ OpenAICloses \/ CalleeHangsUp \/ RunEnds
  BY <1>1 DEF Connect, InitFails, OpenAICloses, CalleeHangsUp, RunEnds
<1>2. CASE DrainEnds
  <2>1. CASE done
    BY <1>2, <2>1 DEF DrainEnds, ForceHangup
  <2>2. CASE ~done
    BY <1>2, <2>2 DEF DrainEnds, ForceHangup
  <2> QED
    BY <2>1, <2>2
<1>10. CASE BackupFires
  <2>1. CASE done
    BY <1>10, <2>1 DEF BackupFires, ForceHangup
  <2>2. CASE ~done
    BY <1>10, <2>2 DEF BackupFires, ForceHangup
  <2> QED
    BY <2>1, <2>2
<1>3. CASE ResponseStarts
  BY <1>3 DEF ResponseStarts
<1>4. CASE RequestRejected
  BY <1>4 DEF RequestRejected
<1>11. CASE TranscriptDone
  BY <1>11 DEF TranscriptDone
<1>12. CASE ResponseDone
  BY <1>12 DEF ResponseDone
<1>5. CASE AudioDone
  BY <1>5 DEF AudioDone
<1>6. CASE SpeechStarted \/ ReportOutcome
  BY <1>6 DEF SpeechStarted, ReportOutcome
<1>7. CASE Acknowledged
  BY <1>7 DEF Acknowledged, ScheduleBackup
<1>8. CASE IdleFires
  BY <1>8 DEF IdleFires, Nudge, GiveUp, ScheduleBackup
<1>9. CASE DurationFires
  BY <1>9 DEF DurationFires, ScheduleBackup
<1> QED
  BY <1>1, <1>2, <1>3, <1>4, <1>5, <1>6, <1>7, <1>8, <1>9, <1>10, <1>11, <1>12
  DEF BridgeNext, Loop

LEMMA CountsStep ==
  ASSUME BridgeTypeOK, BridgeNext
  PROVE  CountsOK'
<1> USE BridgeAssumption DEF BridgeTypeOK, hangupVars, timerVars, openaiVars, CountsOK
<1>1. CASE Connect \/ InitFails \/ OpenAICloses \/ CalleeHangsUp \/ RunEnds
  BY <1>1 DEF Connect, InitFails, OpenAICloses, CalleeHangsUp, RunEnds
<1>2. CASE DrainEnds
  <2>1. CASE done
    BY <1>2, <2>1 DEF DrainEnds, ForceHangup
  <2>2. CASE ~done
    BY <1>2, <2>2 DEF DrainEnds, ForceHangup
  <2> QED
    BY <2>1, <2>2
<1>10. CASE BackupFires
  <2>1. CASE done
    BY <1>10, <2>1 DEF BackupFires, ForceHangup
  <2>2. CASE ~done
    BY <1>10, <2>2 DEF BackupFires, ForceHangup
  <2> QED
    BY <2>1, <2>2
<1>3. CASE ResponseStarts
  BY <1>3 DEF ResponseStarts
<1>4. CASE RequestRejected
  BY <1>4 DEF RequestRejected
<1>11. CASE TranscriptDone
  BY <1>11 DEF TranscriptDone
<1>12. CASE ResponseDone
  BY <1>12 DEF ResponseDone
<1>5. CASE AudioDone
  BY <1>5 DEF AudioDone
<1>6. CASE SpeechStarted \/ ReportOutcome
  BY <1>6 DEF SpeechStarted, ReportOutcome
<1>7. CASE Acknowledged
  BY <1>7 DEF Acknowledged, ScheduleBackup
<1>8. CASE IdleFires
  BY <1>8 DEF IdleFires, Nudge, GiveUp, ScheduleBackup
<1>9. CASE DurationFires
  BY <1>9 DEF DurationFires, ScheduleBackup
<1> QED
  BY <1>1, <1>2, <1>3, <1>4, <1>5, <1>6, <1>7, <1>8, <1>9, <1>10, <1>11, <1>12
  DEF BridgeNext, Loop

\* After _force_hangup the hang-up has been asked for, once.
LEMMA ForceHangupEffect ==
  ASSUME BridgeTypeOK, CountInv, ForceHangup
  PROVE  done' = TRUE /\ hangups' = 1
<1>1. CASE done
  BY <1>1 DEF BridgeTypeOK, FlagsOK, CountInv, ForceHangup
<1>2. CASE ~done
  BY <1>2 DEF CountInv, ForceHangup
<1> QED
  BY <1>1, <1>2

\* The invariant, one action at a time.
LEMMA BridgeStepInv ==
  ASSUME BridgeInv, BridgeNext
  PROVE  (LoopInv /\ DecisionInv /\ CountInv /\ HangupInHand)'
<1> USE DEF BridgeInv, BridgeTypeOK, StatesOK, FlagsOK, CountsOK, LoopInv, DecisionInv, CountInv, HangupInHand,
            hangupVars, timerVars, openaiVars
<1>1. CASE Connect \/ InitFails \/ OpenAICloses \/ CalleeHangsUp \/ RunEnds
  BY <1>1 DEF Connect, InitFails, OpenAICloses, CalleeHangsUp, RunEnds
<1>2. CASE DrainEnds
  <2>1. done' = TRUE /\ hangups' = 1
    BY <1>2, ForceHangupEffect DEF DrainEnds
  <2> QED
    BY <1>2, <2>1 DEF DrainEnds
<1>10. CASE BackupFires
  <2>1. done' = TRUE /\ hangups' = 1
    BY <1>10, ForceHangupEffect DEF BackupFires
  <2> QED
    BY <1>10, <2>1 DEF BackupFires
<1>3. CASE ResponseStarts \/ RequestRejected \/ TranscriptDone \/ ResponseDone
  BY <1>3 DEF ResponseStarts, RequestRejected, TranscriptDone, ResponseDone
<1>4. CASE AudioDone
  BY <1>4 DEF AudioDone, Pumping
<1>5. CASE SpeechStarted
  BY <1>5 DEF SpeechStarted, Pumping
<1>6. CASE ReportOutcome
  BY <1>6 DEF ReportOutcome, Pumping
<1>7. CASE Acknowledged
  BY <1>7 DEF Acknowledged, ScheduleBackup
<1>8. CASE IdleFires
  BY <1>8 DEF IdleFires, Nudge, GiveUp, ScheduleBackup
<1>9. CASE DurationFires
  BY <1>9 DEF DurationFires, ScheduleBackup
<1> QED
  BY <1>1, <1>2, <1>3, <1>4, <1>5, <1>6, <1>7, <1>8, <1>9, <1>10
  DEF BridgeNext, Loop

LEMMA BridgeInvariant == BridgeSpec => []BridgeInv
<1>1. BridgeInv /\ [BridgeNext]_bridgeVars => BridgeInv'
  <2> SUFFICES ASSUME BridgeInv, [BridgeNext]_bridgeVars PROVE BridgeInv'
    OBVIOUS
  <2>1. CASE BridgeNext
    BY <2>1, StatesStep, FlagsStep, CountsStep, BridgeStepInv DEF BridgeInv, BridgeTypeOK
  <2>2. CASE UNCHANGED bridgeVars
    BY <2>2 DEF BridgeInv, BridgeTypeOK, StatesOK, FlagsOK, CountsOK, LoopInv, DecisionInv, CountInv, HangupInHand,
                bridgeVars, hangupVars, timerVars, openaiVars
  <2> QED
    BY <2>1, <2>2
<1> QED
  BY <1>1, BridgeInitInv, PTL DEF BridgeSpec

-----------------------------------------------------------------------------
\* Twilio is asked to hang up at most once (_hangup_done against any number of
\* drain tasks and the backup timer).
THEOREM HangupOnce == BridgeSpec => []HangsUpOnce
<1>1. BridgeInv => HangsUpOnce
  BY DEF BridgeInv, CountInv, HangsUpOnce
<1> QED
  BY <1>1, BridgeInvariant, PTL

\* A hang-up follows an outcome.
THEOREM HangupDecided == BridgeSpec => []HangupHasOutcome
<1>1. BridgeInv => HangupHasOutcome
  BY DEF BridgeInv, DecisionInv, HangupHasOutcome
<1> QED
  BY <1>1, BridgeInvariant, PTL

\* An outcome comes with a hang-up that does not wait for OpenAI.
THEOREM HangupAssured == BridgeSpec => []HangupInHand
<1>1. BridgeInv => HangupInHand
  BY DEF BridgeInv
<1> QED
  BY <1>1, BridgeInvariant, PTL

-----------------------------------------------------------------------------
(* Playing out *)

\* Nothing that Twilio still holds is without a mark in the queue, or with the
\* pump about to append it: unless a cleared chunk's mark has taken another's place.
MarksCover ==
  Len(buffered) <= Len(marks) \/ (sending /\ Len(buffered) <= Len(marks) + 1)

MediaInv ==
  /\ chunks \in Nat /\ sending \in BOOLEAN
  /\ marks \in Seq(Nat) /\ buffered \in Seq(Nat) /\ returned \in Seq(Nat)
  /\ \A i \in DOMAIN buffered : buffered[i] = chunks - Len(buffered) + i
  /\ stolen \/ MarksCover

LEMMA MediaInitInv == MediaInit => MediaInv
<1> SUFFICES ASSUME MediaInit PROVE MediaInv
  OBVIOUS
<1>1. chunks = 0 /\ sending = FALSE /\ marks = <<>> /\ buffered = <<>> /\ returned = <<>>
  BY DEF MediaInit
<1>2. <<>> \in Seq(Nat) /\ Len(<<>>) = 0 /\ DOMAIN <<>> = {}
  OBVIOUS
<1>3. MarksCover
  BY <1>1, <1>2 DEF MarksCover
<1>4. \A i \in DOMAIN buffered : buffered[i] = chunks - Len(buffered) + i
  BY <1>1, <1>2
<1> QED
  BY <1>1, <1>2, <1>3, <1>4 DEF MediaInv

LEMMA PopShortens ==
  ASSUME NEW mark, marks \in Seq(Nat), PopMark(mark)
  PROVE  marks' \in Seq(Nat) /\ Len(marks') = IF marks = <<>> THEN 0 ELSE Len(marks) - 1
BY DEF PopMark

LEMMA MediaStepInv == MediaInv /\ [MediaNext]_mediaVars => MediaInv'
<1> SUFFICES ASSUME MediaInv, [MediaNext]_mediaVars PROVE MediaInv'
  OBVIOUS
<1> USE DEF MediaInv
<1>1. CASE ForwardAudio
  <2>1. /\ chunks' = chunks + 1 /\ buffered' = Append(buffered, chunks + 1) /\ ~sending /\ sending'
        /\ UNCHANGED <<marks, returned, stolen>> /\ sending' \in BOOLEAN
    BY <1>1 DEF ForwardAudio, drainVars
  <2>2. Len(buffered') = Len(buffered) + 1 /\ buffered' \in Seq(Nat)
    BY <2>1
  <2>3. \A i \in DOMAIN buffered' : buffered'[i] = chunks' - Len(buffered') + i
    BY <2>1, <2>2
  <2>4. stolen' \/ MarksCover'
    BY <2>1, <2>2 DEF MarksCover
  <2> QED
    BY <2>1, <2>2, <2>3, <2>4
<1>2. CASE AppendMark
  <2>1. /\ marks' = Append(marks, chunks) /\ sending /\ ~sending' /\ sending' \in BOOLEAN
        /\ UNCHANGED <<chunks, buffered, returned, stolen>>
    BY <1>2 DEF AppendMark, drainVars
  <2>2. Len(marks') = Len(marks) + 1 /\ marks' \in Seq(Nat)
    BY <2>1
  <2> QED
    BY <2>1, <2>2 DEF MarksCover
<1>3. CASE BargeIn
  BY <1>3 DEF BargeIn, drainVars, MarksCover
<1>4. CASE MarkPlayed
  <2>1. /\ buffered # <<>> /\ buffered' = Tail(buffered) /\ PopMark(Head(buffered))
        /\ UNCHANGED <<chunks, sending, returned, stolen>>
    BY <1>4 DEF MarkPlayed, drainVars
  <2>2. /\ Len(buffered) > 0 /\ Len(buffered') = Len(buffered) - 1 /\ buffered' \in Seq(Nat)
        /\ \A i \in DOMAIN buffered' : buffered'[i] = buffered[i + 1] /\ i + 1 \in DOMAIN buffered
    BY <2>1
  <2>3. \A i \in DOMAIN buffered' : buffered'[i] = chunks - Len(buffered') + i
    BY <2>2
  <2> QED
    BY <2>1, <2>2, <2>3, PopShortens DEF MarksCover
<1>5. CASE MarkCleared
  <2>1. /\ returned # <<>> /\ returned' = Tail(returned) /\ PopMark(Head(returned))
        /\ stolen' = (stolen \/ marks # <<>>)
        /\ UNCHANGED <<chunks, sending, buffered>>
    BY <1>5 DEF MarkCleared
  <2>2. returned' \in Seq(Nat) /\ marks' \in Seq(Nat)
    BY <2>1, PopShortens
  <2>3. ~stolen' => MarksCover'
    <3>1. ~stolen' => marks = <<>> /\ ~stolen
      BY <2>1
    <3>2. marks = <<>> => Len(marks') = Len(marks)
      BY <2>1, PopShortens
    <3> QED
      BY <2>1, <3>1, <3>2 DEF MarksCover
  <2> QED
    BY <2>1, <2>2, <2>3
<1>6. CASE UNCHANGED <<chunks, sending, marks, buffered, returned, stolen>>
  BY <1>6 DEF MarksCover
<1> QED
  BY <1>1, <1>2, <1>3, <1>4, <1>5, <1>6
     DEF MediaNext, ItemAdded, ItemCreated, AgentText, UserText, DrainBegins, MarksDrained, DrainHangsUp,
         mediaVars, soundVars, drainVars

\* A drain that was not hurried leaves nothing unplayed, but the chunk whose send
\* has not returned; for any number of chunks, barge-ins and returning marks.
THEOREM DrainsPlayOut == MediaSpec => DrainPlaysOut
<1>1. ASSUME MediaInv, [MediaNext]_mediaVars, drain = "marks", drain' = "texts", ~hurried', ~stolen,
             NEW n \in ToSet(buffered)
      PROVE  sending /\ n = chunks
  <2>1. marks = <<>>
    BY <1>1 DEF MediaNext, ItemAdded, ForwardAudio, AppendMark, BargeIn, MarkPlayed, MarkCleared, ItemCreated,
                AgentText, UserText, DrainBegins, MarksDrained, DrainHangsUp, mediaVars, drainVars
  <2>2. PICK i \in DOMAIN buffered : n = buffered[i]
    BY DEF ToSet
  <2>3. Len(buffered) <= 0 \/ (sending /\ Len(buffered) <= 1)
    BY <1>1, <2>1 DEF MediaInv, MarksCover
  <2> QED
    BY <1>1, <2>2, <2>3 DEF MediaInv
<1>2. MediaInv /\ [MediaNext]_mediaVars
        => [drain = "marks" /\ drain' = "texts" /\ ~hurried' =>
              stolen \/ \A n \in ToSet(buffered) : sending /\ n = chunks]_mediaVars
  BY <1>1
<1> QED
  BY <1>2, MediaInitInv, MediaStepInv, PTL DEF MediaSpec, DrainPlaysOut
-----------------------------------------------------------------------------
(* The transcript *)

\* That the positions in a set can be gone through in ascending order is an
\* induction over the last of them, in the form of a least counterexample.
Below == {ss \in Nat \X Nat : ss[1] < ss[2]}

LEMMA BelowWF == IsWellFoundedOn(Below, Nat)
BY NatLessThanWellFounded DEF OpToRel, Below

\* A sequence that goes through S from its first to its last position.
Runs(f, S) == f \in [1..Cardinality(S) -> S] /\ \A m, n \in DOMAIN f : m < n => f[m] < f[n]

CanRun(n) == \A S \in SUBSET (1..n) : \E f : Runs(f, S)

LEMMA IntervalFinite ==
  ASSUME NEW n \in Nat, NEW S \in SUBSET (1..n)
  PROVE  IsFiniteSet(S) /\ Cardinality(S) \in Nat
<1>1. IsFiniteSet(1..n)
  BY FS_Interval
<1>2. IsFiniteSet(S)
  BY <1>1, FS_Subset
<1> QED
  BY <1>2, FS_CardinalityType

LEMMA RunFromNothing == CanRun(0)
<1> SUFFICES ASSUME NEW S \in SUBSET (1..0) PROVE \E f : Runs(f, S)
  BY DEF CanRun
<1>1. S = {}
  OBVIOUS
<1>a. Cardinality(S) = 0
  BY <1>1, FS_EmptySet
<1>2. <<>> \in [1..0 -> {}]
  OBVIOUS
<1>3. Runs(<<>>, S)
  BY <1>1, <1>a, <1>2 DEF Runs
<1> QED
  BY <1>3

LEMMA RunOneFurther == ASSUME NEW n \in Nat, CanRun(n) PROVE CanRun(n + 1)
<1> SUFFICES ASSUME NEW S \in SUBSET (1..(n + 1)) PROVE \E f : Runs(f, S)
  BY DEF CanRun
<1>1. CASE n + 1 \notin S
  <2>1. S \in SUBSET (1..n)
    BY <1>1
  <2> QED
    BY <2>1 DEF CanRun
<1>2. CASE n + 1 \in S
  <2> DEFINE R == S \ {n + 1}  c == Cardinality(R)
  <2>1. R \in SUBSET (1..n)
    OBVIOUS
  <2>2. IsFiniteSet(S) /\ c \in Nat
    <3>1. n + 1 \in Nat
      OBVIOUS
    <3> QED
      BY <2>1, <3>1, IntervalFinite
  <2>a. Cardinality(S) \in Nat
    <3>1. n + 1 \in Nat
      OBVIOUS
    <3> QED
      BY <3>1, IntervalFinite
  <2>3. Cardinality(S) = c + 1
    <3>1. c = Cardinality(S) - 1
      BY <1>2, <2>2, FS_RemoveElement
    <3> QED
      BY <2>a, <3>1
  <2>4. PICK g : Runs(g, R)
    BY <2>1 DEF CanRun
  <2> DEFINE f == [k \in 1..(c + 1) |-> IF k = c + 1 THEN n + 1 ELSE g[k]]
  <2>5. g \in [1..c -> R] /\ \A j, k \in 1..c : j < k => g[j] < g[k]
    BY <2>4 DEF Runs
  <2> HIDE DEF c
  <2>6. \A k \in 1..(c + 1) : k # c + 1 => k \in 1..c /\ f[k] = g[k] /\ g[k] \in R
    BY <2>2, <2>5
  <2>7. f \in [1..(c + 1) -> S]
    BY <1>2, <2>2, <2>6
  <2>8. \A j, k \in 1..(c + 1) : j < k => f[j] < f[k]
    <3> SUFFICES ASSUME NEW j \in 1..(c + 1), NEW k \in 1..(c + 1), j < k PROVE f[j] < f[k]
      OBVIOUS
    <3>1. j # c + 1
      BY <2>2
    <3>2. CASE k = c + 1
      <4>1. g[j] \in R /\ f[j] = g[j] /\ f[k] = n + 1
        BY <2>6, <3>1, <3>2
      <4> QED
        <5>1. f[j] \in 1..n
          BY <2>1, <4>1
        <5> QED
          BY <4>1, <5>1
    <3>3. CASE k # c + 1
      BY <2>5, <2>6, <3>1, <3>3
    <3> QED
      BY <3>2, <3>3
  <2>9. Runs(f, S)
    <3> HIDE DEF f
    <3>1. DOMAIN f = 1..(c + 1)
      BY <2>7
    <3> QED
      BY <2>3, <2>7, <2>8, <3>1 DEF Runs
  <2> QED
    BY <2>9
<1> QED
  BY <1>1, <1>2

LEMMA EveryoneRuns == \A n \in Nat : CanRun(n)
<1> DEFINE T == {n \in Nat : ~CanRun(n)}
<1> SUFFICES ASSUME T # {} PROVE FALSE
  OBVIOUS
<1>1. PICK n \in T : \A m \in T : ~(<<m, n>> \in Below)
  BY BelowWF, WFMin
<1>2. n # 0
  BY RunFromNothing
<1>3. n - 1 \in Nat /\ n = (n - 1) + 1
  BY <1>2
<1>4. n - 1 \in T
  <2>1. ~CanRun(n)
    OBVIOUS
  <2> QED
    BY <1>3, <2>1, RunOneFurther
<1>5. <<n - 1, n>> \in Below
  BY <1>3 DEF Below
<1> QED
  BY <1>1, <1>4, <1>5

\* Ascending(S) names every element of S once, from the first to the last.
LEMMA AscendingRuns ==
  ASSUME NEW n \in Nat, NEW S \in SUBSET (1..n)
  PROVE  /\ Ascending(S) \in Seq(S) /\ Len(Ascending(S)) = Cardinality(S)
         /\ DOMAIN Ascending(S) = 1..Cardinality(S)
         /\ \A i \in 1..Cardinality(S) : Ascending(S)[i] \in S
         /\ \A i, j \in 1..Cardinality(S) : i < j => Ascending(S)[i] < Ascending(S)[j]
         /\ \A x \in S : \E i \in 1..Cardinality(S) : Ascending(S)[i] = x
<1> DEFINE f == Ascending(S)  c == Cardinality(S)
<1>1. IsFiniteSet(S) /\ c \in Nat
  BY IntervalFinite
<1>2. PICK g : Runs(g, S)
  BY EveryoneRuns DEF CanRun
<1>3. f \in [1..c -> S] /\ \A i, j \in DOMAIN f : i < j => f[i] < f[j]
  BY <1>2 DEF Ascending, Runs
<1> HIDE DEF f
<1>4. f \in Injection(1..c, S)
  <2>1. ASSUME NEW i \in 1..c, NEW j \in 1..c, f[i] = f[j] PROVE i = j
    <3>1. f[i] \in 1..n /\ f[j] \in 1..n
      BY <1>3
    <3> QED
      BY <1>3, <2>1, <3>1
  <2> QED
    BY <1>3, <2>1 DEF Injection, IsInjective
<1>5. f \in Surjection(1..c, S)
  <2>1. Cardinality(1..c) = c
    BY <1>1, FS_Interval
  <2> QED
    BY <1>1, <1>4, <2>1, FS_Injection
<1>6. f \in Seq(S) /\ Len(f) = c
  BY <1>1, <1>3
<1> QED
  BY <1>3, <1>5, <1>6 DEF f, Surjection

-----------------------------------------------------------------------------

\* An item is created once; it has a record once it has a line, and the record
\* is one of its lines.
WordsInv ==
  /\ speaking \in AgentItems \cup {NoItem}
  /\ order \in Seq(Items) /\ \A k, l \in DOMAIN order : order[k] = order[l] => k = l
  /\ transcript \in Seq(Items \cup {NoItem})
  /\ DOMAIN records \subseteq Items
  /\ \A i \in DOMAIN records : records[i] \in DOMAIN transcript /\ transcript[records[i]] = i
  /\ \A n \in DOMAIN transcript : transcript[n] # NoItem => transcript[n] \in DOMAIN records

LEMMA WordsInitInv == MediaInit => WordsInv
BY DEF MediaInit, WordsInv

LEMMA RecordKeeps ==
  ASSUME WordsInv, NEW i \in Items \cup {NoItem}, RecordTranscript(i), UNCHANGED <<speaking, order>>
  PROVE  WordsInv'
<1> USE MediaAssumption DEF WordsInv
<1> DEFINE n == Len(transcript)
<1>1. n \in Nat /\ DOMAIN transcript = 1..n /\ transcript' = Append(transcript, i)
  BY DEF RecordTranscript
<1>2. transcript' \in Seq(Items \cup {NoItem}) /\ DOMAIN transcript' = 1..(n + 1)
      /\ transcript'[n + 1] = i /\ \A m \in 1..n : transcript'[m] = transcript[m]
  BY <1>1
<1> HIDE DEF n
<1>3. CASE i = NoItem
  <2>1. records' = records
    BY <1>3 DEF RecordTranscript
  <2> QED
    BY <1>1, <1>2, <1>3, <2>1
<1>4. CASE i # NoItem
  <2>1. DOMAIN records' = DOMAIN records \cup {i}
        /\ \A j \in DOMAIN records' : records'[j] = IF j = i THEN n + 1 ELSE records[j]
    BY <1>4 DEF RecordTranscript, n
  <2> QED
    BY <1>1, <1>2, <1>4, <2>1
<1> QED
  BY <1>3, <1>4

LEMMA CreatedKeeps ==
  ASSUME WordsInv, ItemCreated
  PROVE  WordsInv'
<1> PICK i \in Items \ ToSet(order) : order' = Append(order, i)
  BY DEF ItemCreated
<1> DEFINE n == Len(order)
<1>1. n \in Nat /\ DOMAIN order = 1..n
  BY DEF WordsInv
<1>2. order' \in Seq(Items) /\ DOMAIN order' = 1..(n + 1)
      /\ order'[n + 1] = i /\ \A m \in 1..n : order'[m] = order[m] /\ order[m] # i
  BY <1>1 DEF WordsInv, ToSet
<1>3. UNCHANGED <<speaking, transcript, records>>
  BY DEF ItemCreated, soundVars
<1> HIDE DEF n
<1>4. \A k, l \in DOMAIN order' : order'[k] = order'[l] => k = l
  BY <1>1, <1>2 DEF WordsInv
<1> QED
  BY <1>2, <1>3, <1>4 DEF WordsInv

LEMMA WordsStepInv == WordsInv /\ [MediaNext]_mediaVars => WordsInv'
<1> SUFFICES ASSUME WordsInv, [MediaNext]_mediaVars PROVE WordsInv'
  OBVIOUS
<1>1. CASE AgentText
  <2>1. PICK i \in AgentItems \cup {speaking} : RecordTranscript(i)
    BY <1>1 DEF AgentText
  <2>2. i \in Items \cup {NoItem} /\ UNCHANGED <<speaking, order>>
    BY <1>1 DEF AgentText, WordsInv, AgentItems, soundVars
  <2> QED
    BY <2>1, <2>2, RecordKeeps
<1>2. CASE UserText
  <2>1. PICK i \in UserItems \ DOMAIN records : RecordTranscript(i) \/ UNCHANGED <<transcript, records>>
    BY <1>2 DEF UserText
  <2>2. i \in Items \cup {NoItem} /\ UNCHANGED <<speaking, order>>
    BY <1>2, MediaAssumption DEF UserText, soundVars
  <2>3. UNCHANGED <<transcript, records>> => WordsInv'
    BY <2>2 DEF WordsInv
  <2> QED
    BY <2>1, <2>2, <2>3, RecordKeeps
<1>3. CASE UNCHANGED textVars /\ speaking' \in AgentItems \cup {NoItem, speaking}
  <2>1. UNCHANGED <<order, transcript, records>> /\ speaking' \in AgentItems \cup {NoItem}
    BY <1>3 DEF textVars, WordsInv
  <2> QED
    BY <2>1 DEF WordsInv
<1>4. ItemAdded \/ ForwardAudio \/ AppendMark \/ BargeIn \/ MarkPlayed \/ MarkCleared
        \/ DrainBegins \/ MarksDrained \/ DrainHangsUp \/ UNCHANGED mediaVars
      => UNCHANGED textVars /\ speaking' \in AgentItems \cup {NoItem, speaking}
  BY DEF ItemAdded, ForwardAudio, AppendMark, BargeIn, MarkPlayed, MarkCleared, DrainBegins,
         MarksDrained, DrainHangsUp, mediaVars, soundVars
<1> QED
  BY <1>1, <1>2, <1>3, <1>4, CreatedKeeps DEF MediaNext

\* An item's line comes in the place of its item.
LEMMA KnownLinesFit ==
  ASSUME WordsInv
  PROVE  LET c == Cardinality(Recorded)
             D == DOMAIN transcript
             F == ToSet(KnownLines)
         IN /\ c \in Nat /\ Len(transcript) \in Nat /\ D = 1..Len(transcript)
            /\ KnownLines \in Seq(D) /\ Len(KnownLines) = c /\ DOMAIN KnownLines = 1..c
            /\ F \subseteq D /\ Cardinality(F) = c
            /\ \A n \in 1..c : Ascending(Recorded)[n] \in Recorded
                               /\ KnownLines[n] = records[order[Ascending(Recorded)[n]]]
            /\ \A k \in Recorded : records[order[k]] \in F
<1> DEFINE c == Cardinality(Recorded)
           D == DOMAIN transcript
           F == ToSet(KnownLines)
           R == Recorded
           seq == Ascending(R)
<1>1. Len(order) \in Nat /\ R \in SUBSET (1..Len(order)) /\ Len(transcript) \in Nat /\ D = 1..Len(transcript)
  BY DEF WordsInv, Recorded
<1>2. c \in Nat /\ IsFiniteSet(R)
  BY <1>1, IntervalFinite
<1>3. /\ DOMAIN seq = 1..c /\ \A n \in 1..c : seq[n] \in R
      /\ \A m, n \in 1..c : m < n => seq[m] < seq[n]
      /\ \A x \in R : \E n \in 1..c : seq[n] = x
  BY <1>1, AscendingRuns
<1> DEFINE K == KnownLines
<1>4. DOMAIN K = 1..c /\ \A n \in 1..c : K[n] = records[order[seq[n]]]
  BY DEF KnownLines
<1>5. \A n \in 1..c : K[n] \in D /\ transcript[K[n]] = order[seq[n]]
  BY <1>3, <1>4 DEF WordsInv, Recorded
<1>6. K \in [1..c -> D]
  BY <1>4, <1>5 DEF KnownLines
<1> HIDE DEF K, seq, c
<1>7. K \in Seq(D) /\ Len(K) = c
  BY <1>2, <1>6
<1>8. F = {K[n] : n \in 1..c}
  BY <1>4 DEF ToSet, K
<1>9. \A m, n \in 1..c : K[m] = K[n] => m = n
  <2> SUFFICES ASSUME NEW m \in 1..c, NEW n \in 1..c, K[m] = K[n] PROVE m = n
    OBVIOUS
  <2>1. seq[m] \in R /\ seq[n] \in R /\ seq[m] = seq[n]
    BY <1>3, <1>5 DEF WordsInv, Recorded
  <2>2. seq[m] \in 1..Len(order)
    BY <1>1, <2>1
  <2>3. m < n \/ m = n \/ n < m
    BY <1>2
  <2> QED
    BY <1>3, <2>1, <2>2, <2>3
<1>10. Cardinality(F) = c
  <2>1. K \in Bijection(1..c, F)
    BY <1>6, <1>8, <1>9 DEF Bijection, Injection, Surjection, IsInjective
  <2>2. IsFiniteSet(1..c) /\ Cardinality(1..c) = c
    BY <1>2, FS_Interval
  <2> QED
    BY <2>1, <2>2, FS_Bijection DEF ExistsBijection
<1>11. \A k \in R : records[order[k]] \in F
  BY <1>3, <1>4, <1>8
<1> QED
  BY <1>1, <1>2, <1>3, <1>4, <1>5, <1>7, <1>8, <1>10, <1>11 DEF K, seq, c

\* What F leaves of 1..n, in its order.
LEMMA TheRestRuns ==
  ASSUME NEW n \in Nat, NEW F \in SUBSET (1..n)
  PROVE  LET R == (1..n) \ F
             d == Cardinality(R)
         IN /\ d \in Nat /\ d = n - Cardinality(F)
            /\ Ascending(R) \in Seq(R) /\ Len(Ascending(R)) = d /\ DOMAIN Ascending(R) = 1..d
            /\ \A i \in 1..d : Ascending(R)[i] \in R
            /\ \A x \in R : \E i \in 1..d : Ascending(R)[i] = x
<1> DEFINE R == (1..n) \ F  d == Cardinality(R)
<1>1. R \in SUBSET (1..n)
  OBVIOUS
<1>2. IsFiniteSet(1..n) /\ Cardinality(1..n) = n
  BY FS_Interval
<1>3. (1..n) \cap F = F
  OBVIOUS
<1>4. d = Cardinality(1..n) - Cardinality((1..n) \cap F)
  BY <1>2, FS_Difference
<1>5. d \in Nat /\ d = n - Cardinality(F)
  <2>1. d \in Nat
    BY <1>1, IntervalFinite
  <2> QED
    BY <1>2, <1>3, <1>4, <2>1
<1>6. /\ Ascending(R) \in Seq(R) /\ Len(Ascending(R)) = d /\ DOMAIN Ascending(R) = 1..d
      /\ \A i \in 1..d : Ascending(R)[i] \in R
      /\ \A x \in R : \E i \in 1..d : Ascending(R)[i] = x
  <2> HIDE DEF R
  <2> QED
    BY <1>1, AscendingRuns
<1> QED
  BY <1>5, <1>6

LEMMA SequenceOf == ASSUME NEW S, NEW n \in Nat, NEW f \in [1..n -> S] PROVE f \in Seq(S)
OBVIOUS

LEMMA OneAfterTheOther ==
  ASSUME NEW S, NEW s \in Seq(S), NEW t \in Seq(S)
  PROVE  /\ Len(s \o t) = Len(s) + Len(t) /\ DOMAIN (s \o t) = 1..(Len(s) + Len(t))
         /\ \A n \in 1..(Len(s) + Len(t)) : (s \o t)[n] = IF n <= Len(s) THEN s[n] ELSE t[n - Len(s)]
OBVIOUS

\* The stored transcript has every line once, in whichever order OpenAI's events
\* came, and the lines of known items stand in the order of their creation.
THEOREM TranscriptsAreFaithful == MediaSpec => []TranscriptIsFaithful
<1>1. WordsInv => TranscriptIsFaithful
  <2> SUFFICES ASSUME WordsInv PROVE TranscriptIsFaithful
    OBVIOUS
  <2> DEFINE stored == OrderedTranscript
             Known(n) == transcript[n] \in ToSet(order) /\ records[transcript[n]] = n
             L == Len(transcript)
  <2>1. CASE order = <<>>
    <3>1. stored = [n \in 1..L |-> n] /\ L \in Nat /\ DOMAIN transcript = 1..L
      BY <2>1 DEF OrderedTranscript, WordsInv
    <3>2. Len(stored) = L /\ DOMAIN stored = 1..L /\ ToSet(stored) = 1..L
      BY <3>1 DEF ToSet
    <3>3. \A n : ~Known(n)
      BY <2>1 DEF ToSet
    <3> QED
      BY <3>1, <3>2, <3>3 DEF TranscriptIsFaithful
  <2>2. CASE order # <<>>
    <3> DEFINE c == Cardinality(Recorded)
               F == ToSet(KnownLines)
               R == (1..L) \ F
               d == Cardinality(R)
               seq == Ascending(Recorded)
    <3>1. /\ c \in Nat /\ L \in Nat /\ DOMAIN transcript = 1..L
          /\ KnownLines \in Seq(1..L) /\ Len(KnownLines) = c /\ DOMAIN KnownLines = 1..c
          /\ F \subseteq 1..L /\ Cardinality(F) = c
          /\ \A n \in 1..c : seq[n] \in Recorded /\ KnownLines[n] = records[order[seq[n]]]
          /\ \A k \in Recorded : records[order[k]] \in F
      BY KnownLinesFit
    <3>2. /\ d \in Nat /\ d = L - c
          /\ OtherLines \in Seq(R) /\ Len(OtherLines) = d /\ DOMAIN OtherLines = 1..d
          /\ \A i \in 1..d : OtherLines[i] \in R
          /\ \A x \in R : \E i \in 1..d : OtherLines[i] = x
      <4>1. OtherLines = Ascending(R)
        BY <3>1 DEF OtherLines
      <4> HIDE DEF F, L, c
      <4>2. F \in SUBSET (1..L)
        BY <3>1
      <4>3. L \in Nat /\ Cardinality(F) = c
        BY <3>1
      <4>4. d \in Nat /\ d = L - Cardinality(F)
        BY <4>2, <4>3, TheRestRuns
      <4>5. Ascending(R) \in Seq(R) /\ Len(Ascending(R)) = d /\ DOMAIN Ascending(R) = 1..d
        BY <4>2, <4>3, TheRestRuns
      <4>6. \A i \in 1..d : Ascending(R)[i] \in R
        BY <4>2, <4>3, TheRestRuns
      <4>7. \A x \in R : \E i \in 1..d : Ascending(R)[i] = x
        BY <4>2, <4>3, TheRestRuns
      <4> HIDE DEF R, d
      <4> QED
        BY <4>1, <4>3, <4>4, <4>5, <4>6, <4>7
    <3>3. d = L - c /\ d \in Nat
      BY <3>2
    <3>4. stored = KnownLines \o OtherLines
      BY <2>2 DEF OrderedTranscript, KnownThenRest
    <3> HIDE DEF stored, c, d, seq
    <3>5. /\ Len(stored) = L /\ DOMAIN stored = 1..L
          /\ \A n \in 1..L : stored[n] = IF n <= c THEN KnownLines[n] ELSE OtherLines[n - c]
      <4> HIDE DEF F, L, R
      <4>1. KnownLines \in Seq(1..L) /\ OtherLines \in Seq(1..L)
        <5>1. R \subseteq 1..L
          BY DEF R
        <5>2. OtherLines \in Seq(R)
          BY <3>2
        <5>3. OtherLines \in [1..d -> R] /\ d \in Nat
          BY <3>2
        <5>4. OtherLines \in [1..d -> 1..L]
          BY <5>1, <5>3
        <5>5. OtherLines \in Seq(1..L)
          BY <5>3, <5>4, SequenceOf
        <5> QED
          BY <3>1, <5>5
      <4>2. c + d = L
        BY <3>1, <3>2
      <4>3. Len(KnownLines) = c /\ Len(OtherLines) = d
        BY <3>1, <3>2
      <4>4. /\ Len(KnownLines \o OtherLines) = c + d /\ DOMAIN (KnownLines \o OtherLines) = 1..(c + d)
            /\ \A n \in 1..(c + d) : (KnownLines \o OtherLines)[n]
                                      = IF n <= c THEN KnownLines[n] ELSE OtherLines[n - c]
        BY <4>1, <4>3, OneAfterTheOther
      <4> QED
        BY <3>4, <4>2, <4>4
    <3>6. ToSet(stored) = 1..L
      <4>1. \A n \in 1..L : stored[n] \in 1..L
        <5> TAKE n \in 1..L
        <5>1. CASE n <= c
          <6>1. n \in 1..c
            BY <3>1, <5>1
          <6> QED
            BY <3>1, <3>5, <5>1, <6>1
        <5>2. CASE ~(n <= c)
          <6>1. n - c \in 1..d
            BY <3>1, <3>3, <5>2
          <6> QED
            BY <3>2, <3>5, <5>2, <6>1
        <5> QED
          BY <5>1, <5>2
      <4>2. \A x \in F : \E n \in 1..L : stored[n] = x
        <5> SUFFICES ASSUME NEW x \in F PROVE \E n \in 1..L : stored[n] = x
          OBVIOUS
        <5>1. PICK i \in 1..c : KnownLines[i] = x
          BY <3>1 DEF ToSet
        <5>2. i \in 1..L /\ i <= c
          <6>1. c <= L
            BY <3>1, <3>3
          <6> QED
            BY <3>1, <6>1
        <5> QED
          BY <3>5, <5>1, <5>2
      <4>3. \A x \in R : \E n \in 1..L : stored[n] = x
        <5> SUFFICES ASSUME NEW x \in R PROVE \E n \in 1..L : stored[n] = x
          OBVIOUS
        <5>1. PICK i \in 1..d : OtherLines[i] = x
          BY <3>2
        <5>2. i + c \in 1..L /\ ~(i + c <= c) /\ (i + c) - c = i
          BY <3>1, <3>3
        <5> QED
          BY <3>5, <5>1, <5>2
      <4> QED
        BY <3>5, <4>1, <4>2, <4>3 DEF ToSet
    <3>7. ASSUME NEW n \in 1..L, Known(stored[n]) PROVE n <= c
      <4> SUFFICES ASSUME ~(n <= c) PROVE FALSE
        OBVIOUS
      <4>1. stored[n] \in R
        <5>1. n - c \in 1..d
          BY <3>1, <3>3
        <5> QED
          BY <3>2, <3>5, <5>1
      <4>2. PICK k \in DOMAIN order : order[k] = transcript[stored[n]]
        BY <3>7 DEF ToSet
      <4>3. order[k] \in DOMAIN records
        BY <3>1, <4>1, <4>2, MediaAssumption DEF WordsInv
      <4> QED
        BY <3>1, <3>7, <4>1, <4>2, <4>3 DEF Recorded
    <3>8. \A n \in 1..c : /\ seq[n] \in DOMAIN order /\ order[seq[n]] \in DOMAIN records
                          /\ transcript[KnownLines[n]] = order[seq[n]]
      BY <3>1 DEF Recorded, WordsInv
    <3>9. ASSUME NEW m \in 1..L, NEW n \in 1..L, m < n, Known(stored[n])
          PROVE  /\ Known(stored[m])
                 /\ \E k, l \in DOMAIN order :
                      k < l /\ order[k] = transcript[stored[m]] /\ order[l] = transcript[stored[n]]
      <4>1. n <= c /\ m <= c /\ m \in 1..c /\ n \in 1..c
        BY <3>1, <3>7, <3>9
      <4>2. stored[m] = KnownLines[m] /\ stored[n] = KnownLines[n]
        BY <3>5, <4>1
      <4>3. seq[m] < seq[n]
        <5>1. Recorded \in SUBSET (1..Len(order)) /\ Len(order) \in Nat
          BY DEF Recorded, WordsInv
        <5> QED
          BY <3>9, <4>1, <5>1, AscendingRuns DEF seq, c
      <4> QED
        BY <3>1, <3>8, <4>1, <4>2, <4>3 DEF ToSet
    <3> QED
      BY <3>1, <3>5, <3>6, <3>9 DEF TranscriptIsFaithful, stored
  <2> QED
    BY <2>1, <2>2
<1> QED
  BY <1>1, WordsInitInv, WordsStepInv, PTL DEF MediaSpec

-----------------------------------------------------------------------------
(* Types *)

\* The sound's types; the words' follow from WordsInv.
SoundOK ==
  /\ chunks \in 0..MaxChunks /\ sending \in BOOLEAN /\ started \in BOOLEAN /\ (sending => chunks # 0)
  /\ marks \in Seq(1..MaxChunks) /\ buffered \in Seq(1..MaxChunks) /\ returned \in Seq(1..MaxChunks)
  /\ drain \in {"none", "marks", "texts", "over"} /\ hurried \in BOOLEAN /\ stolen \in BOOLEAN
  /\ awaited \subseteq UserItems

LEMMA QueueOf ==
  ASSUME NEW S, NEW s \in Seq(S), NEW t \in Seq(S)
  PROVE  <<>> \in Seq(S) /\ s \o t \in Seq(S) /\ (s # <<>> => Tail(s) \in Seq(S))
OBVIOUS

LEMMA SoundInit == MediaInit => SoundOK
<1> SUFFICES ASSUME MediaInit PROVE SoundOK
  OBVIOUS
<1>1. /\ chunks = 0 /\ sending = FALSE /\ started = FALSE /\ hurried = FALSE /\ stolen = FALSE
      /\ marks = <<>> /\ buffered = <<>> /\ returned = <<>> /\ drain = "none" /\ awaited = {}
  BY DEF MediaInit
<1>2. <<>> \in Seq(1..MaxChunks)
  OBVIOUS
<1>3. sending \in BOOLEAN /\ started \in BOOLEAN /\ hurried \in BOOLEAN /\ stolen \in BOOLEAN /\ ~sending
  BY <1>1
<1>4. chunks \in 0..MaxChunks
  BY <1>1, MediaAssumption
<1> QED
  BY <1>1, <1>2, <1>3, <1>4 DEF SoundOK

LEMMA SoundStep == SoundOK /\ [MediaNext]_mediaVars => SoundOK'
<1> SUFFICES ASSUME SoundOK, [MediaNext]_mediaVars PROVE SoundOK'
  OBVIOUS
<1> USE MediaAssumption DEF SoundOK, soundVars, drainVars, textVars
<1>1. CASE ForwardAudio
  <2>1. chunks + 1 \in 1..MaxChunks
    BY <1>1 DEF ForwardAudio
  <2>2. buffered' \in Seq(1..MaxChunks)
    BY <1>1, <2>1 DEF ForwardAudio
  <2> QED
    BY <1>1, <2>1, <2>2 DEF ForwardAudio
<1>2. CASE AppendMark
  <2>1. chunks \in 1..MaxChunks
    BY <1>2 DEF AppendMark
  <2>2. marks' \in Seq(1..MaxChunks)
    BY <1>2, <2>1 DEF AppendMark
  <2> QED
    BY <1>2, <2>2 DEF AppendMark
<1>3. CASE BargeIn
  <2>1. returned \o buffered \in Seq(1..MaxChunks) /\ <<>> \in Seq(1..MaxChunks)
    BY QueueOf
  <2> QED
    BY <1>3, <2>1 DEF BargeIn
<1>4. CASE MarkPlayed
  <2>1. buffered' \in Seq(1..MaxChunks)
    BY <1>4, QueueOf DEF MarkPlayed
  <2>2. marks' \in Seq(1..MaxChunks)
    BY <1>4, QueueOf DEF MarkPlayed, PopMark
  <2> QED
    BY <1>4, <2>1, <2>2 DEF MarkPlayed
<1>5. CASE MarkCleared
  <2>1. returned' \in Seq(1..MaxChunks)
    BY <1>5, QueueOf DEF MarkCleared
  <2>2. marks' \in Seq(1..MaxChunks)
    BY <1>5, QueueOf DEF MarkCleared, PopMark
  <2>3. stolen' \in BOOLEAN
    BY <1>5 DEF MarkCleared
  <2> QED
    BY <1>5, <2>1, <2>2, <2>3 DEF MarkCleared
<1>6. CASE ItemCreated
  BY <1>6 DEF ItemCreated
<1>7. CASE UserText
  BY <1>7 DEF UserText
<1>8. CASE DrainBegins \/ MarksDrained \/ DrainHangsUp
  <2>1. hurried' \in BOOLEAN /\ drain' \in {"marks", "texts", "over"}
    BY <1>8 DEF DrainBegins, MarksDrained, DrainHangsUp
  <2>2. UNCHANGED <<soundVars, stolen, awaited>>
    BY <1>8 DEF DrainBegins, MarksDrained, DrainHangsUp
  <2> QED
    BY <2>1, <2>2
<1>9. CASE ItemAdded \/ AgentText \/ UNCHANGED mediaVars
  BY <1>9 DEF ItemAdded, AgentText, mediaVars
<1> QED
  BY <1>1, <1>2, <1>3, <1>4, <1>5, <1>6, <1>7, <1>8, <1>9 DEF MediaNext

LEMMA MediaFits == SoundOK /\ WordsInv => MediaTypeOK
BY DEF SoundOK, WordsInv, MediaTypeOK
=============================================================================
