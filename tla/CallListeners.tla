---------------------------- MODULE CallListeners -----------------------------
(***************************************************************************)
(* The WebSocket clients that listen to a call: CallEventBroadcaster       *)
(* (core/ws_manager.py) and the handler of one client, call_status_ws      *)
(* (calls/ws.py).  An emitter takes a snapshot of the task's clients under *)
(* the lock and sends to one after the other outside it, so clients come   *)
(* and go while an event is on its way; a failed send disconnects the      *)
(* client, and the client's own handler disconnects it a second time.      *)
(*                                                                         *)
(* A task has several emitters (its executor, the bridge's two loops, the  *)
(* handler of each callback, the finalizer).  Each awaits an event of its  *)
(* own before its next and numbers them; nothing orders two emitters.  The *)
(* bridge cancels its loops, also in the middle of an event.  A block      *)
(* under the lock is one step: it awaits nothing else.  Left out: what an  *)
(* event says.                                                             *)
(***************************************************************************)
EXTENDS Integers, Sequences, FiniteSets

CONSTANTS
  Listened,    \* the tasks listened to
  Sockets,     \* WebSocket clients, each for the task TaskOf says
  TaskOf,
  Emitters,    \* coroutines that emit, each for the task EmitsFor says
  EmitsFor,
  MaxEvents    \* bound: events per emitter

ASSUME ListenersAssumption ==
  /\ TaskOf \in [Sockets -> Listened]
  /\ EmitsFor \in [Emitters -> Listened]
  /\ MaxEvents \in Nat

VARIABLES
  handler,      \* of each client: where call_status_ws is
  token,        \* the token it presents: "none", "stranger", "owner", "admin"
  healthy,      \* does sending to the client succeed?
  connections,  \* _connections
  events,       \* of each emitter: its events so far,
  targets,      \* ... the clients it still has to send to,
  failing,      \* ... and those whose send failed and that it disconnects
  cancelled,    \* the emitters that were cancelled
  received      \* of each client: the events it received of each emitter

emitterVars  == <<events, targets, failing, cancelled, received>>
listenerVars == <<handler, token, healthy, connections, emitterVars>>

\* create_ws_ticket: the ticket of the task's owner, of an administrator or of
\* another user; an access token does not say that its user is an administrator.
Tickets == {"stranger", "owner", "admin"}
\* _authenticate_ws takes what does not decode, or is of another type, for none.
Tokens == Tickets \cup {"none"}
Steps  == {"start", "accepted", "listening", "leaving", "over", "unauthorized", "forbidden"}

ListenersTypeOK ==
  /\ handler \in [Sockets -> Steps] /\ token \in [Sockets -> Tokens]
  /\ healthy \in [Sockets -> BOOLEAN]
  /\ DOMAIN connections \subseteq Listened
  /\ \A k \in DOMAIN connections :
       connections[k] # {} /\ connections[k] \subseteq {s \in Sockets : TaskOf[s] = k}
  /\ events \in [Emitters -> 0..MaxEvents]
  /\ targets \in [Emitters -> SUBSET Sockets] /\ failing \in [Emitters -> SUBSET Sockets]
  /\ cancelled \subseteq Emitters
  /\ received \in [Sockets -> [Emitters -> Seq(1..MaxEvents)]]

ListenersInit ==
  /\ handler = [s \in Sockets |-> "start"] /\ token \in [Sockets -> Tokens]
  /\ healthy = [s \in Sockets |-> TRUE]
  /\ connections = [k \in {} |-> {}]
  /\ events = [e \in Emitters |-> 0]
  /\ targets = [e \in Emitters |-> {}] /\ failing = [e \in Emitters |-> {}]
  /\ cancelled = {}
  /\ received = [s \in Sockets |-> [e \in Emitters |-> <<>>]]

Connected(k) == IF k \in DOMAIN connections THEN connections[k] ELSE {}

WithEntry(k, clients) ==
  [j \in DOMAIN connections \cup {k} |-> IF j = k THEN clients ELSE connections[j]]
WithoutEntry(k) == [j \in DOMAIN connections \ {k} |-> connections[j]]

\* Mutant: an entry stays when its last client goes.
DisconnectKeepingEntry(k, s) == connections' = WithEntry(k, Connected(k) \ {s})

\* CallEventBroadcaster.disconnect: the entry goes with its last client, also
\* when the defaultdict has only just created it for a second disconnect.
Disconnect(k, s) ==
  LET rest == Connected(k) \ {s}
  IN connections' = IF rest = {} THEN WithoutEntry(k) ELSE WithEntry(k, rest)

-----------------------------------------------------------------------------
(* call_status_ws *)

MayListen(s) == token[s] \in {"owner", "admin"}

Reject(s) ==
  /\ handler[s] = "start" /\ ~MayListen(s)
  /\ handler' = [handler EXCEPT ![s] =
       IF token[s] = "none" THEN "unauthorized" ELSE "forbidden"]
  /\ UNCHANGED <<token, healthy, connections, emitterVars>>

\* CallEventBroadcaster.connect: accept, then the entry under the lock.
Accept(s) ==
  /\ handler[s] = "start" /\ MayListen(s)
  /\ handler' = [handler EXCEPT ![s] = "accepted"]
  /\ UNCHANGED <<token, healthy, connections, emitterVars>>

Enlist(s) ==
  /\ handler[s] = "accepted"
  /\ handler' = [handler EXCEPT ![s] = "listening"]
  /\ connections' = WithEntry(TaskOf[s], Connected(TaskOf[s]) \cup {s})
  /\ UNCHANGED <<token, healthy, emitterVars>>

\* The client's connection breaks: from now on sending to it fails.
Breaks(s) ==
  /\ healthy[s]
  /\ healthy' = [healthy EXCEPT ![s] = FALSE]
  /\ UNCHANGED <<handler, token, connections, emitterVars>>

\* receive_text raises WebSocketDisconnect; finally waits for the lock.
Notices(s) ==
  /\ handler[s] = "listening" /\ ~healthy[s]
  /\ handler' = [handler EXCEPT ![s] = "leaving"]
  /\ UNCHANGED <<token, healthy, connections, emitterVars>>

\* Mutant: the handler does not disconnect its client.
LeaveSilently(s) ==
  /\ handler[s] = "leaving"
  /\ handler' = [handler EXCEPT ![s] = "over"]
  /\ UNCHANGED <<token, healthy, connections, emitterVars>>

Leave(s) ==
  /\ handler[s] = "leaving"
  /\ handler' = [handler EXCEPT ![s] = "over"]
  /\ Disconnect(TaskOf[s], s)
  /\ UNCHANGED <<token, healthy, emitterVars>>

-----------------------------------------------------------------------------
(* emit *)

Emitting(e) == targets[e] # {} \/ failing[e] # {}

\* Mutant: an emitter does not wait for its event before it makes the next.
EmitAtOnce(e) ==
  /\ e \notin cancelled /\ events[e] < MaxEvents
  /\ events' = [events EXCEPT ![e] = @ + 1]
  /\ targets' = [targets EXCEPT ![e] = Connected(EmitsFor[e])]
  /\ UNCHANGED <<handler, token, healthy, connections, failing, cancelled, received>>

\* The caller's has_listeners and the snapshot; without listeners no message
\* is made.  The emitter awaited its own event before this one, and no other's.
Emit(e) ==
  /\ e \notin cancelled /\ ~Emitting(e) /\ events[e] < MaxEvents
  /\ events' = [events EXCEPT ![e] = @ + 1]
  /\ targets' = [targets EXCEPT ![e] = Connected(EmitsFor[e])]
  /\ UNCHANGED <<handler, token, healthy, connections, failing, cancelled, received>>

Send(e) ==
  /\ failing[e] = {}
  /\ \E s \in targets[e] :
       /\ healthy[s]
       /\ targets' = [targets EXCEPT ![e] = @ \ {s}]
       /\ received' = [received EXCEPT ![s][e] = Append(@, events[e])]
  /\ UNCHANGED <<handler, token, healthy, connections, events, failing, cancelled>>

SendFails(e) ==
  /\ failing[e] = {}
  /\ \E s \in targets[e] :
       /\ ~healthy[s]
       /\ targets' = [targets EXCEPT ![e] = @ \ {s}]
       /\ failing' = [failing EXCEPT ![e] = {s}]
  /\ UNCHANGED <<handler, token, healthy, connections, events, cancelled, received>>

\* The emitter's own disconnect, once it has the lock.
DropFailed(e) ==
  /\ \E s \in failing[e] : Disconnect(EmitsFor[e], s)
  /\ failing' = [failing EXCEPT ![e] = {}]
  /\ UNCHANGED <<handler, token, healthy, events, targets, cancelled, received>>

\* RealtimeBridge.run cancels the loop that has not ended: CancelledError is no
\* Exception, so emit stops where it awaits, with clients still to send to or a
\* failed one still to disconnect.
LoopCancelled(e) ==
  /\ Emitting(e)
  /\ cancelled' = cancelled \cup {e}
  /\ targets' = [targets EXCEPT ![e] = {}] /\ failing' = [failing EXCEPT ![e] = {}]
  /\ UNCHANGED <<handler, token, healthy, connections, events, received>>

-----------------------------------------------------------------------------
HandlerStep(s) == Reject(s) \/ Accept(s) \/ Enlist(s) \/ Notices(s) \/ Leave(s)
EmitterStep(e) == Send(e) \/ SendFails(e) \/ DropFailed(e)

ListenersNext ==
  \/ \E s \in Sockets : HandlerStep(s) \/ Breaks(s)
  \/ \E e \in Emitters : Emit(e) \/ EmitterStep(e) \/ LoopCancelled(e)

\* The event loop runs every handler and every emitter that can go on.
ListenersFairness ==
  /\ \A s \in Sockets : WF_listenerVars(HandlerStep(s))
  /\ \A e \in Emitters : WF_listenerVars(EmitterStep(e))

ListenersSpec == ListenersInit /\ [][ListenersNext]_listenerVars /\ ListenersFairness

-----------------------------------------------------------------------------
(* Properties *)

\* A client receives the events of each emitter in order and without a gap,
\* although others come, go and fail in the middle of an event, which another
\* emitter's disconnect may end; and only a client that may listen to the task
\* receives any (ws_manager.py:32-48, ws.py:54-63).
EventsInOrder ==
  \A s \in Sockets : \A e \in Emitters :
    /\ \A i \in DOMAIN received[s][e] : received[s][e][i] = received[s][e][1] + i - 1
    /\ received[s][e] # <<>> => MayListen(s) /\ EmitsFor[e] = TaskOf[s]

\* A client whose connection breaks is off the list for good
\* (ws.py:67-70, ws_manager.py:45-48).
BrokenClientsLeave ==
  \A s \in Sockets :
    ~healthy[s] /\ handler[s] # "start" ~> [](\A k \in DOMAIN connections : s \notin connections[k])

=============================================================================
