------------------------------ MODULE BridgeMedia ------------------------------
(***************************************************************************)
(* The sound and the words of one realtime call (integrations/             *)
(* realtime_bridge.py).  The agent's audio goes to Twilio chunk by chunk,  *)
(* each with a mark that Twilio sends back once it has been played; what   *)
(* both sides say comes back from OpenAI as text, out of order, each text  *)
(* for a conversation item.  Whoever begins to speak over the agent clears *)
(* Twilio's buffer; a drain waits for the marks and for the texts of what  *)
(* the callee has said, and then hangs up.                                 *)
(*                                                                         *)
(* Both pumps and the drain are coroutines of one event loop.  The pump    *)
(* that reads OpenAI is suspended while it sends to Twilio, and marks may  *)
(* come back meanwhile.  RealtimeBridge has the outcome, the timers and    *)
(* what starts a drain.  Left out: the audio from the callee, timestamps   *)
(* and with them how much of an item a truncation keeps, and token counts. *)
(***************************************************************************)
EXTENDS Integers, FiniteSets, Sequences, SequencesExt

CONSTANTS
  Items,      \* conversation items of the call
  UserItems,  \* those that the callee speaks
  NoItem,
  MaxChunks,  \* bound: chunks of the agent's audio
  MaxLines    \* bound: texts that come from OpenAI

ASSUME MediaAssumption ==
  /\ UserItems \subseteq Items /\ NoItem \notin Items
  /\ MaxChunks \in Nat /\ MaxLines \in Nat

VARIABLES
  chunks,     \* chunks sent so far
  sending,    \* has the pump still to append the mark it has sent?
  speaking,   \* last_assistant_item_id
  started,    \* is response_start_timestamp_twilio set?
  marks,      \* mark_queue: the chunks whose marks are in it
  buffered,   \* at Twilio: chunks not played yet
  returned,   \* at Twilio: cleared chunks whose marks have still to come back
  drain,      \* _hangup_after_drain: "none", "marks", "texts", "over"
  hurried,    \* history: has a deadline ended the drain's wait for the marks?
  stolen,     \* history: has a cleared chunk's mark taken a newer one off the queue?
  order,      \* _item_order
  transcript, \* transcript_buffer: of each line its item
  records,    \* _item_records: of each item the index of its line
  awaited     \* _pending_user_items

soundVars  == <<chunks, sending, speaking, started, marks, buffered, returned>>
drainVars  == <<drain, hurried, stolen>>
textVars   == <<order, transcript, records, awaited>>
mediaVars  == <<soundVars, drainVars, textVars>>

AgentItems == Items \ UserItems

MediaTypeOK ==
  /\ chunks \in 0..MaxChunks /\ sending \in BOOLEAN /\ started \in BOOLEAN
  /\ speaking \in AgentItems \cup {NoItem}
  /\ marks \in Seq(1..MaxChunks) /\ buffered \in Seq(1..MaxChunks) /\ returned \in Seq(1..MaxChunks)
  /\ drain \in {"none", "marks", "texts", "over"} /\ hurried \in BOOLEAN /\ stolen \in BOOLEAN
  /\ order \in Seq(Items) /\ transcript \in Seq(Items \cup {NoItem})
  /\ DOMAIN records \subseteq Items /\ \A i \in DOMAIN records : records[i] \in DOMAIN transcript
  /\ awaited \subseteq UserItems

MediaInit ==
  /\ chunks = 0 /\ sending = FALSE /\ speaking = NoItem /\ started = FALSE
  /\ marks = <<>> /\ buffered = <<>> /\ returned = <<>>
  /\ drain = "none" /\ hurried = FALSE /\ stolen = FALSE
  /\ order = <<>> /\ transcript = <<>> /\ records = [i \in {} |-> 0] /\ awaited = {}

-----------------------------------------------------------------------------
(* The agent's audio *)

\* response.output_item.added for a message.
ItemAdded ==
  /\ ~sending
  /\ speaking' \in AgentItems
  /\ UNCHANGED <<chunks, sending, started, marks, buffered, returned, drainVars, textVars>>

\* A chunk and its mark are sent to Twilio; the first since the last barge-in
\* says which item is being spoken, if it names one.
ForwardAudio ==
  /\ ~sending /\ chunks < MaxChunks
  /\ chunks' = chunks + 1
  /\ buffered' = Append(buffered, chunks + 1)
  /\ started' = TRUE
  /\ IF started THEN UNCHANGED speaking ELSE speaking' \in AgentItems \cup {speaking}
  /\ sending' = TRUE
  /\ UNCHANGED <<marks, returned, drainVars, textVars>>

\* The send has returned.
AppendMark ==
  /\ sending
  /\ sending' = FALSE
  /\ marks' = Append(marks, chunks)
  /\ UNCHANGED <<chunks, speaking, started, buffered, returned, drainVars, textVars>>

\* speech_started while something has been sent since the last barge-in: what
\* Twilio holds is cleared, and it sends the marks of that back.  The sends are
\* one step: a mark that came back between them would be cleared with the queue.
BargeIn ==
  /\ ~sending /\ speaking # NoItem /\ started
  /\ buffered' = <<>> /\ returned' = returned \o buffered
  /\ marks' = <<>>
  /\ started' = FALSE /\ speaking' = NoItem
  /\ UNCHANGED <<chunks, sending, drainVars, textVars>>

\* Mutant: one mark empties the queue.
PopAll(mark) == marks' = <<>>

\* A mark comes back: the oldest is taken off the queue, whichever it is.
PopMark(mark) == marks' = IF marks = <<>> THEN marks ELSE Tail(marks)

\* Twilio has played a chunk.
MarkPlayed ==
  /\ returned = <<>> /\ buffered # <<>>
  /\ buffered' = Tail(buffered)
  /\ PopMark(Head(buffered))
  /\ UNCHANGED <<chunks, sending, speaking, started, returned, drainVars, textVars>>

\* Twilio returns a mark of what it has cleared.
MarkCleared ==
  /\ returned # <<>>
  /\ returned' = Tail(returned)
  /\ PopMark(Head(returned))
  /\ stolen' = (stolen \/ marks # <<>>)
  /\ UNCHANGED <<chunks, sending, speaking, started, buffered, drain, hurried, textVars>>

-----------------------------------------------------------------------------
(* What is said *)

\* conversation.item.created; the callee's items are waited for.
ItemCreated ==
  /\ ~sending
  /\ \E i \in Items \ ToSet(order) :
       /\ order' = Append(order, i)
       /\ awaited' = awaited \cup ({i} \cap UserItems)
  /\ UNCHANGED <<soundVars, drainVars, transcript, records>>

\* _record_transcript
RecordTranscript(i) ==
  /\ transcript' = Append(transcript, i)
  /\ records' = IF i = NoItem THEN records
                ELSE [j \in DOMAIN records \cup {i} |-> IF j = i THEN Len(transcript) + 1 ELSE records[j]]

\* The agent's text is complete; without an item it is put down to the item
\* that is being spoken.  An empty one is dropped.
AgentText ==
  /\ ~sending /\ Len(transcript) < MaxLines
  /\ \E i \in AgentItems \cup {speaking} : RecordTranscript(i)
  /\ UNCHANGED <<soundVars, drainVars, order, awaited>>

\* The transcription of what the callee has said is complete; it may be empty,
\* and may come before the item's own event.
UserText ==
  /\ ~sending /\ Len(transcript) < MaxLines
  /\ \E i \in UserItems \ DOMAIN records :
       /\ RecordTranscript(i) \/ UNCHANGED <<transcript, records>>
       /\ awaited' = awaited \ {i}
  /\ UNCHANGED <<soundVars, drainVars, order>>

\* Mutant: the lines of items that have come are all there is.
OnlyKnown(known, rest) == known

KnownThenRest(known, rest) == known \o rest

\* Positions, from the first to the last.
Ascending(S) == CHOOSE f \in [1..Cardinality(S) -> S] : \A m, n \in DOMAIN f : m < n => f[m] < f[n]

\* get_ordered_transcript, as indices of lines: items in the order of their
\* creation, each with its last line; then all lines that this leaves out.
Recorded   == {k \in DOMAIN order : order[k] \in DOMAIN records}
KnownLines == [n \in 1..Cardinality(Recorded) |-> records[order[Ascending(Recorded)[n]]]]
OtherLines == Ascending(DOMAIN transcript \ ToSet(KnownLines))

OrderedTranscript ==
  IF order = <<>> THEN [n \in DOMAIN transcript |-> n] ELSE KnownThenRest(KnownLines, OtherLines)

-----------------------------------------------------------------------------
(* The drain *)

\* An audio.done with the hang-up pending, or a farewell already spoken.
DrainBegins ==
  /\ drain = "none"
  /\ drain' = "marks"
  /\ UNCHANGED <<soundVars, hurried, stolen, textVars>>

\* The queue is empty, or the wait has been long enough.
MarksDrained ==
  /\ drain = "marks"
  /\ drain' = "texts"
  /\ hurried' \in {hurried, TRUE} /\ (~hurried' => marks = <<>>)
  /\ UNCHANGED <<soundVars, stolen, textVars>>

\* The callee's texts have come, or the wait has been long enough; hang up.
DrainHangsUp ==
  /\ drain = "texts"
  /\ drain' = "over"
  /\ UNCHANGED <<soundVars, hurried, stolen, textVars>>

MediaNext ==
  \/ ItemAdded \/ ForwardAudio \/ AppendMark \/ BargeIn
  \/ MarkPlayed \/ MarkCleared
  \/ ItemCreated \/ AgentText \/ UserText
  \/ DrainBegins \/ MarksDrained \/ DrainHangsUp

MediaSpec == MediaInit /\ [][MediaNext]_mediaVars

-----------------------------------------------------------------------------
(* Properties *)

\* The transcript that is stored has every line once, whatever order OpenAI's
\* events came in and however many lines an item had; and the lines of known
\* items follow the order in which the items were created
\* (realtime_bridge.py:761-782).
TranscriptIsFaithful ==
  LET stored == OrderedTranscript
      Known(n) == transcript[n] \in ToSet(order) /\ records[transcript[n]] = n
  IN /\ Len(stored) = Len(transcript) /\ ToSet(stored) = DOMAIN transcript
     /\ \A m, n \in DOMAIN stored :
          m < n /\ Known(stored[n]) =>
            /\ Known(stored[m])
            /\ \E k, l \in DOMAIN order :
                 k < l /\ order[k] = transcript[stored[m]] /\ order[l] = transcript[stored[n]]

\* A drain that did not run into its deadline goes on when everything has been
\* played, although marks come back while the pump is sending; unless a barge-in
\* has cleared chunks whose marks were then taken for newer ones
\* (realtime_bridge.py:453-454, 316-318, 684-689).
DrainPlaysOut ==
  [][drain = "marks" /\ drain' = "texts" /\ ~hurried' =>
       stolen \/ \A n \in ToSet(buffered) : sending /\ n = chunks]_mediaVars
=============================================================================
