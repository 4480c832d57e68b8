---------------------------- MODULE ServiceProofs ----------------------------
(***************************************************************************)
(* The services beside the calls, for any number of clients, listeners,    *)
(* files and calls: the rate limiter's limit and map, the order in which a *)
(* call's listeners hear it, disk and database of the uploaded files, and  *)
(* whose recording a finished call keeps and plays.  Then what all of the  *)
(* services keep when they are taken together.                             *)
(***************************************************************************)
EXTENDS MCServices, BridgeProofs, DialogProofs, IntakeProofs, AccountProofs

(* The rate limiter *)

\* What was let through lately is tracked, of whom the cap has not forgotten.
TrackedInv ==
  \A ip \in Clients \ evicted : Recent(granted[ip], now) \subseteq Tracked(requests, ip)

LimiterInv ==
  /\ LimiterTypeOK
  /\ IsFiniteSet(DOMAIN requests)
  /\ TrackedInv /\ WindowRespected /\ MapIsBounded

-----------------------------------------------------------------------------
(* Windows *)

LEMMA FiniteTimes == \A S \in SUBSET Times : IsFiniteSet(S)
<1>1. IsFiniteSet(Times)
  <2>1. 0 \in Int /\ MaxTime \in Int
    BY LimiterAssumption
  <2> QED
    BY <2>1, FS_Interval DEF Times
<1> QED
  BY <1>1, FS_Subset

\* As time goes on a window only loses times.
LEMMA WindowSlides ==
  ASSUME NEW S \in SUBSET Times, NEW m \in Times, NEW t \in Times, m < t
  PROVE  Recent(S, t) \subseteq Recent(S, m)
<1> SUFFICES ASSUME NEW s \in S, t - s < Window PROVE m - s < Window
  BY DEF Recent
<1>1. s \in Int /\ m \in Int /\ t \in Int /\ Window \in Int
  BY LimiterAssumption DEF Times
<1> QED
  BY <1>1

\* Nothing recent is in a stale window.
LEMMA StaleIsNotRecent ==
  ASSUME NEW S \in SUBSET Times, NEW t \in Times, Stale(S, t)
  PROVE  Recent(S, t) = {}
<1> SUFFICES ASSUME NEW s \in S, t - s < Window PROVE FALSE
  BY DEF Recent
<1>1. s \in Int /\ t \in Int /\ Window \in Int
  BY LimiterAssumption DEF Times
<1>2. s < t - Window
  BY DEF Stale
<1> QED
  BY <1>1, <1>2

LEMMA RecentOfMore ==
  ASSUME NEW S \in SUBSET Times, NEW t \in Times
  PROVE  Recent(S \cup {t}, t) \subseteq Recent(S, t) \cup {t}
  BY LimiterAssumption DEF Recent, Times

LEMMA CountMore ==
  ASSUME NEW S, NEW e, NEW n \in Nat, IsFiniteSet(S), Cardinality(S) <= n
  PROVE  IsFiniteSet(S \cup {e}) /\ Cardinality(S \cup {e}) <= n + 1
<1>1. Cardinality(S) \in Nat /\ IsFiniteSet(S \cup {e})
  BY FS_CardinalityType, FS_AddElement
<1>2. Cardinality(S \cup {e}) = IF e \in S THEN Cardinality(S) ELSE Cardinality(S) + 1
  BY FS_AddElement
<1> QED
  BY <1>1, <1>2

-----------------------------------------------------------------------------
(* dispatch, after a sweep or without one *)

Kept(reqs, t) ==
  /\ DOMAIN reqs \subseteq DOMAIN requests
  /\ \A c \in DOMAIN reqs : reqs[c] = requests[c]
  /\ \A c \in DOMAIN requests \ DOMAIN reqs : c \in evicted' \/ Stale(requests[c], t)

\* What was granted lately is in the windows that the sweep has left.
LEMMA StillTracked ==
  ASSUME LimiterInv, NEW t \in Times, now < t, NEW reqs, Kept(reqs, t), evicted \subseteq evicted',
         NEW c \in Clients \ evicted'
  PROVE  Recent(granted[c], t) \subseteq Recent(Tracked(reqs, c), t)
<1>1. granted[c] \in SUBSET Times /\ now \in Times
  BY DEF LimiterInv, LimiterTypeOK
<1>2. Recent(granted[c], t) \subseteq Recent(granted[c], now)
  BY <1>1, WindowSlides
<1>3. Recent(granted[c], now) \subseteq Tracked(requests, c)
  BY DEF LimiterInv, TrackedInv
<1>4. Recent(granted[c], t) \subseteq Recent(Tracked(requests, c), t)
  BY <1>2, <1>3 DEF Recent
<1>5. CASE c \in DOMAIN requests \ DOMAIN reqs
  <2>1. Stale(requests[c], t) /\ requests[c] \in SUBSET Times
    BY <1>5 DEF Kept, LimiterInv, LimiterTypeOK
  <2>2. Recent(requests[c], t) = {}
    BY <2>1, StaleIsNotRecent
  <2> QED
    BY <1>4, <1>5, <2>2 DEF Tracked
<1>6. CASE ~(c \in DOMAIN requests \ DOMAIN reqs)
  BY <1>4, <1>6 DEF Tracked, Kept
<1> QED
  BY <1>5, <1>6

LEMMA DecideTypes ==
  ASSUME LimiterInv, NEW ip \in Clients, NEW t \in Times, NEW reqs, Kept(reqs, t), Decide(ip, reqs, t)
  PROVE  /\ DOMAIN requests' \subseteq Clients
         /\ \A c \in DOMAIN requests' : requests'[c] \subseteq Times /\ requests'[c] # {}
         /\ granted' \in [Clients -> SUBSET Times]
<1> DEFINE window == Recent(Tracked(reqs, ip), t)
           pass   == Cardinality(window) < MaxRequests
<1>1. window \in SUBSET Times
  BY DEF LimiterInv, LimiterTypeOK, Kept, Tracked, Recent
<1>2. ~pass => window # {}
  BY FS_EmptySet, LimiterAssumption
<1>3. /\ DOMAIN requests' = DOMAIN reqs \cup {ip}
      /\ requests'[ip] = IF pass THEN window \cup {t} ELSE window
      /\ \A c \in DOMAIN reqs \ {ip} : requests'[c] = reqs[c]
      /\ granted' = IF pass THEN [granted EXCEPT ![ip] = @ \cup {t}] ELSE granted
  BY DEF Decide
<1> QED
  BY <1>1, <1>2, <1>3 DEF LimiterInv, LimiterTypeOK, Kept

LEMMA DecideTracks ==
  ASSUME LimiterInv, NEW ip \in Clients, NEW t \in Times, now < t, now' = t,
         NEW reqs, Kept(reqs, t), evicted \subseteq evicted', Decide(ip, reqs, t)
  PROVE  TrackedInv'
<1> DEFINE window == Recent(Tracked(reqs, ip), t)
           pass   == Cardinality(window) < MaxRequests
<1> SUFFICES ASSUME NEW c \in Clients \ evicted'
             PROVE  Recent(granted'[c], t) \subseteq Tracked(requests', c)
  BY DEF TrackedInv, Tracked, Recent
<1>1. Recent(granted[c], t) \subseteq Recent(Tracked(reqs, c), t)
  BY StillTracked
<1>2. /\ DOMAIN requests' = DOMAIN reqs \cup {ip}
      /\ requests'[ip] = IF pass THEN window \cup {t} ELSE window
      /\ \A k \in DOMAIN reqs \ {ip} : requests'[k] = reqs[k]
      /\ granted' = IF pass THEN [granted EXCEPT ![ip] = @ \cup {t}] ELSE granted
  BY DEF Decide
<1>3. granted \in [Clients -> SUBSET Times]
  BY DEF LimiterInv, LimiterTypeOK
<1>4. CASE c = ip
  <2>1. granted'[c] = IF pass THEN granted[c] \cup {t} ELSE granted[c]
    BY <1>2, <1>3, <1>4
  <2>2. Recent(granted[c] \cup {t}, t) \subseteq Recent(granted[c], t) \cup {t}
    BY <1>3, RecentOfMore
  <2>3. Tracked(requests', c) = IF pass THEN window \cup {t} ELSE window
    BY <1>2, <1>4 DEF Tracked
  <2> QED
    BY <1>1, <1>4, <2>1, <2>2, <2>3
<1>5. CASE c # ip
  <2>1. granted'[c] = granted[c] /\ Tracked(requests', c) = Tracked(reqs, c)
    BY <1>2, <1>3, <1>5 DEF Tracked
  <2> QED
    BY <1>1, <2>1 DEF Recent
<1> QED
  BY <1>4, <1>5

\* Who is let through had less than MaxRequests in the window.
LEMMA DecideRespects ==
  ASSUME LimiterInv, NEW ip \in Clients, NEW t \in Times, now < t, now' = t,
         NEW reqs, Kept(reqs, t), evicted \subseteq evicted', Decide(ip, reqs, t)
  PROVE  WindowRespected'
<1> DEFINE window == Recent(Tracked(reqs, ip), t)
           pass   == Cardinality(window) < MaxRequests
<1> SUFFICES ASSUME NEW c \in Clients \ evicted'
             PROVE  Cardinality(Recent(granted'[c], t)) <= MaxRequests
  BY DEF WindowRespected, Recent
<1>1. granted \in [Clients -> SUBSET Times] /\ now \in Times
  BY DEF LimiterInv, LimiterTypeOK
<1>2. granted' = IF pass THEN [granted EXCEPT ![ip] = @ \cup {t}] ELSE granted
  BY DEF Decide
<1>3. IsFiniteSet(Recent(granted[c], t)) /\ IsFiniteSet(Recent(granted[c], now))
  BY <1>1, FiniteTimes DEF Recent
<1>4. Cardinality(Recent(granted[c], t)) \in Nat /\ Cardinality(Recent(granted[c], now)) \in Nat
  BY <1>3, FS_CardinalityType
<1>5. CASE pass /\ c = ip
  <2>1. window \in SUBSET Times
    BY DEF LimiterInv, LimiterTypeOK, Kept, Tracked, Recent
  <2>2. IsFiniteSet(window) /\ Cardinality(window) \in Nat
    BY <2>1, FiniteTimes, FS_CardinalityType
  <2>3. Recent(granted[c], t) \subseteq window
    BY <1>5, StillTracked
  <2>4. Cardinality(Recent(granted[c], t)) <= MaxRequests - 1
    BY <1>4, <1>5, <2>2, <2>3, FS_Subset, LimiterAssumption
  <2>5. Recent(granted'[c], t) \subseteq Recent(granted[c], t) \cup {t}
    BY <1>1, <1>2, <1>5, RecentOfMore
  <2>6. /\ IsFiniteSet(Recent(granted[c], t) \cup {t})
        /\ Cardinality(Recent(granted[c], t) \cup {t}) <= MaxRequests
    <3>1. MaxRequests - 1 \in Nat /\ (MaxRequests - 1) + 1 = MaxRequests
      BY LimiterAssumption
    <3> QED
      BY <1>3, <2>4, <3>1, CountMore
  <2>7. /\ Cardinality(Recent(granted'[c], t)) \in Nat
        /\ Cardinality(Recent(granted[c], t) \cup {t}) \in Nat
        /\ Cardinality(Recent(granted'[c], t)) <= Cardinality(Recent(granted[c], t) \cup {t})
    BY <2>5, <2>6, FS_Subset, FS_CardinalityType
  <2> QED
    BY <2>6, <2>7, LimiterAssumption
<1>6. CASE ~(pass /\ c = ip)
  <2>1. granted'[c] = granted[c]
    BY <1>1, <1>2, <1>6
  <2>2. Cardinality(Recent(granted[c], t)) <= Cardinality(Recent(granted[c], now))
    BY <1>1, <1>3, WindowSlides, FS_Subset
  <2>3. Cardinality(Recent(granted[c], now)) <= MaxRequests
    BY DEF LimiterInv, WindowRespected
  <2> QED
    BY <1>4, <2>1, <2>2, <2>3, LimiterAssumption
<1> QED
  BY <1>5, <1>6

-----------------------------------------------------------------------------
(* Steps *)

LEMMA LimiterInitInv == LimiterInit => LimiterInv
<1> SUFFICES ASSUME LimiterInit PROVE LimiterInv
  OBVIOUS
<1>1. LimiterTypeOK
  BY LimiterAssumption DEF LimiterInit, LimiterTypeOK, Times
<1>2. IsFiniteSet(DOMAIN requests) /\ Cardinality(DOMAIN requests) = 0
  BY FS_EmptySet DEF LimiterInit
<1>3. MapIsBounded
  BY <1>2, LimiterAssumption DEF LimiterInit, MapIsBounded
<1>4. \A ip \in Clients : Recent(granted[ip], now) = {}
  BY DEF LimiterInit, Recent
<1>5. TrackedInv /\ WindowRespected
  BY <1>4, FS_EmptySet, LimiterAssumption DEF TrackedInv, WindowRespected
<1> QED
  BY <1>1, <1>2, <1>3, <1>5 DEF LimiterInv

LEMMA WithoutSweepKeeps ==
  ASSUME LimiterInv, NEW ip \in Clients, NEW t \in Times, now < t, now' = t, RequestWithoutSweep(ip, t)
  PROVE  LimiterInv'
<1>1. /\ ~Swept /\ sinceSweep' = sinceSweep + 1 /\ Decide(ip, requests, t) /\ evicted' = evicted
      /\ Kept(requests, t)
  BY DEF RequestWithoutSweep, Kept
<1>2. sinceSweep' \in 0..(SWEEP_EVERY_REQUESTS - 1) /\ sinceSweep \in Nat
  BY <1>1, LimiterAssumption DEF LimiterInv, LimiterTypeOK, Swept
<1>3. LimiterTypeOK'
  BY <1>1, <1>2, DecideTypes DEF LimiterInv, LimiterTypeOK
<1>4. DOMAIN requests' = DOMAIN requests \cup {ip}
  BY <1>1 DEF Decide
<1>5. IsFiniteSet(DOMAIN requests') /\ MapIsBounded'
  <2>1. MAX_TRACKED_IPS + 1 + sinceSweep \in Nat
    BY <1>2, LimiterAssumption
  <2>2. /\ IsFiniteSet(DOMAIN requests \cup {ip})
        /\ Cardinality(DOMAIN requests \cup {ip}) <= (MAX_TRACKED_IPS + 1 + sinceSweep) + 1
    BY <2>1, CountMore DEF LimiterInv, MapIsBounded
  <2> QED
    BY <1>1, <1>2, <1>4, <2>2, LimiterAssumption DEF MapIsBounded
<1>6. TrackedInv' /\ WindowRespected'
  BY <1>1, DecideTracks, DecideRespects
<1> QED
  BY <1>3, <1>5, <1>6 DEF LimiterInv

\* A sweep leaves no more than the cap.
LEMMA SurvivorsAreFew ==
  ASSUME LimiterInv, NEW t \in Times, NEW ips \in SUBSET DOMAIN requests, Survivors(ips, requests, t)
  PROVE  IsFiniteSet(ips) /\ Cardinality(ips) <= MAX_TRACKED_IPS
<1> DEFINE fresh == {ip \in DOMAIN requests : ~Stale(requests[ip], t)}
<1>1. IsFiniteSet(ips) /\ IsFiniteSet(fresh)
  BY FS_Subset DEF LimiterInv
<1>2. Cardinality(fresh) \in Nat
  BY <1>1, FS_CardinalityType
<1>3. \/ Cardinality(ips) = MAX_TRACKED_IPS
      \/ ips = fresh /\ ~(Cardinality(fresh) > MAX_TRACKED_IPS)
  BY DEF Survivors
<1> QED
  BY <1>1, <1>2, <1>3, LimiterAssumption

LEMMA WithSweepKeeps ==
  ASSUME LimiterInv, NEW ip \in Clients, NEW t \in Times, now < t, now' = t, RequestWithSweep(ip, t)
  PROVE  LimiterInv'
<1> PICK ips \in SUBSET DOMAIN requests :
      /\ Survivors(ips, requests, t)
      /\ evicted' = evicted \cup {c \in DOMAIN requests \ ips : ~Stale(requests[c], t)}
      /\ Decide(ip, Restricted(requests, ips), t)
  BY DEF RequestWithSweep
<1>1. sinceSweep' = 0
  BY DEF RequestWithSweep
<1>2. Kept(Restricted(requests, ips), t) /\ evicted \subseteq evicted'
  BY DEF Kept, Restricted
<1>3. LimiterTypeOK'
  BY <1>1, <1>2, DecideTypes, LimiterAssumption DEF LimiterInv, LimiterTypeOK
<1>4. DOMAIN requests' = ips \cup {ip}
  BY DEF Decide, Restricted
<1>5. IsFiniteSet(ips) /\ Cardinality(ips) <= MAX_TRACKED_IPS
  BY SurvivorsAreFew
<1>6. IsFiniteSet(DOMAIN requests') /\ MapIsBounded'
  <2>1. MAX_TRACKED_IPS \in Nat
    BY LimiterAssumption
  <2>2. IsFiniteSet(ips \cup {ip}) /\ Cardinality(ips \cup {ip}) <= MAX_TRACKED_IPS + 1
    BY <1>5, <2>1, CountMore
  <2> QED
    BY <1>1, <1>4, <2>1, <2>2 DEF MapIsBounded
<1>7. TrackedInv' /\ WindowRespected'
  BY <1>2, DecideTracks, DecideRespects
<1> QED
  BY <1>3, <1>6, <1>7 DEF LimiterInv

LEMMA LimiterStepInv == LimiterInv /\ [LimiterNext]_limiterVars => LimiterInv'
<1> SUFFICES ASSUME LimiterInv, [LimiterNext]_limiterVars PROVE LimiterInv'
  OBVIOUS
<1>1. ASSUME NEW ip \in Clients, NEW t \in Times, Request(ip, t) PROVE LimiterInv'
  <2>1. now < t /\ now' = t
    BY <1>1, LimiterAssumption DEF Request, LimiterInv, LimiterTypeOK, Times
  <2> QED
    BY <1>1, <2>1, WithoutSweepKeeps, WithSweepKeeps DEF Request
<1>2. CASE UNCHANGED limiterVars
  BY <1>2 DEF limiterVars, LimiterInv, LimiterTypeOK, TrackedInv, WindowRespected, MapIsBounded, Tracked
<1> QED
  BY <1>1, <1>2 DEF LimiterNext

LEMMA LimiterInductive == LimiterSpec => []LimiterInv
  BY LimiterInitInv, LimiterStepInv, PTL DEF LimiterSpec

\* No client is let through more than MaxRequests times in a window, unless the
\* cap has forgotten it (rate_limit.py:59-72).
THEOREM LimitHolds == LimiterSpec => []WindowRespected
<1>1. LimiterInv => WindowRespected
  BY DEF LimiterInv
<1> QED
  BY <1>1, LimiterInductive, PTL

\* Between two sweeps the map grows by one entry per request at most
\* (rate_limit.py:40-48, 59-62).
THEOREM MapStaysSmall == LimiterSpec => []MapIsBounded
<1>1. LimiterInv => MapIsBounded
  BY DEF LimiterInv
<1> QED
  BY <1>1, LimiterInductive, PTL

-----------------------------------------------------------------------------
(* Listening to a call *)

Newest(seq) == seq[Len(seq)]

\* The list of a task's clients, and what each emitter has taken of it.
ListsOK ==
  /\ handler \in [Sockets -> Steps] /\ healthy \in [Sockets -> BOOLEAN] /\ events \in [Emitters -> Nat]
  /\ targets \in [Emitters -> SUBSET Sockets] /\ failing \in [Emitters -> SUBSET Sockets]
  /\ received \in [Sockets -> [Emitters -> Seq(Nat)]]
  /\ \A k \in Listened : Connected(k) \subseteq Sockets
  /\ \A e \in Emitters : /\ failing[e] = {} \/ \E s \in Sockets : failing[e] = {s} /\ ~healthy[s]
                         /\ e \in cancelled => targets[e] = {} /\ failing[e] = {}

\* Who is on a list, or is sent to, may listen to that task.
ClientOK(s) ==
  LET k == TaskOf[s]
  IN /\ \A j \in Listened \ {k} : s \notin Connected(j)
     /\ handler[s] # "start" => MayListen(s) \/ handler[s] \in {"unauthorized", "forbidden"}
     /\ s \in Connected(k) => MayListen(s) /\ handler[s] \notin {"start", "accepted"}

\* A client is sent what follows what it has received of an emitter, or it is not
\* on the list, or broken, and is sent nothing more.
StreamOK(s, e) ==
  LET got == received[s][e]
      k     == TaskOf[s]
  IN /\ EmitsFor[e] # k => s \notin targets[e] /\ got = <<>>
     /\ s \in targets[e] \/ got # <<>> => MayListen(s) /\ handler[s] \notin {"start", "accepted"}
     /\ got # <<>> =>
          /\ \A i \in DOMAIN got : got[i] = got[1] + i - 1
          /\ s \in targets[e] /\ healthy[s] => Newest(got) = events[e] - 1
          /\ s \in Connected(k) \ targets[e] /\ healthy[s] /\ e \notin cancelled => Newest(got) = events[e]

ListenersInv ==
  ListsOK /\ \A s \in Sockets : ClientOK(s) /\ \A e \in Emitters : StreamOK(s, e)

LEMMA EnlistConnects ==
  ASSUME NEW k, NEW s, connections' = WithEntry(k, Connected(k) \cup {s})
  PROVE  \A j : Connected(j)' = IF j = k THEN Connected(k) \cup {s} ELSE Connected(j)
BY DEF WithEntry, Connected

LEMMA DisconnectRemoves ==
  ASSUME NEW k, NEW s, Disconnect(k, s)
  PROVE  \A j : Connected(j)' = IF j = k THEN Connected(k) \ {s} ELSE Connected(j)
BY DEF Disconnect, WithEntry, WithoutEntry, Connected

LEMMA ListenersInitInv == ListenersInit => ListenersInv
BY ListenersAssumption DEF ListenersInit, ListenersInv, ListsOK, ClientOK, StreamOK, Connected, Steps

\* A client's own handler moves on; the list may lose clients or win this one.
LEMMA HandlerKeeps ==
  ASSUME ListenersInv, NEW s \in Sockets, HandlerStep(s) \/ Breaks(s)
  PROVE  ListenersInv'
<1>1. UNCHANGED <<token, events, targets, failing, cancelled, received>> /\ TaskOf[s] \in Listened
  BY ListenersAssumption DEF HandlerStep, Reject, Accept, Enlist, Notices, Leave, Breaks, emitterVars
<1>3. /\ \A c \in Sockets \ {s} : handler'[c] = handler[c]
      /\ handler'[s] = "start" => handler[s] = "start"
      /\ handler'[s] \in {"start", "accepted"} => handler[s] \in {"start", "accepted"}
      /\ handler'[s] # "start" => handler[s] # "start" \/ MayListen(s) \/ handler'[s] \in {"unauthorized", "forbidden"}
      /\ handler'[s] \in {"unauthorized", "forbidden"} \/ handler[s] \notin {"unauthorized", "forbidden"}
  BY DEF HandlerStep, Reject, Accept, Enlist, Notices, Leave, Breaks, ListenersInv, ListsOK
<1>4. \A j \in Listened : \A c :
        c \in Connected(j)' => \/ c \in Connected(j)
                               \/ c = s /\ j = TaskOf[s] /\ handler[s] = "accepted" /\ handler'[s] = "listening"
  <2>1. CASE Enlist(s)
    <3>1. handler[s] = "accepted" /\ handler'[s] = "listening"
      BY <2>1 DEF Enlist, ListenersInv, ListsOK
    <3>2. \A j : Connected(j)' = IF j = TaskOf[s] THEN Connected(TaskOf[s]) \cup {s} ELSE Connected(j)
      BY <2>1, EnlistConnects DEF Enlist
    <3> QED
      BY <3>1, <3>2
  <2>2. CASE Leave(s)
    BY <2>2, DisconnectRemoves DEF Leave
  <2>3. CASE UNCHANGED connections
    BY <2>3 DEF Connected
  <2> QED
    BY <2>1, <2>2, <2>3 DEF HandlerStep, Reject, Accept, Notices, Breaks
<1>6. healthy' \in [Sockets -> BOOLEAN] /\ \A c \in Sockets : ~healthy[c] => ~healthy'[c]
  <2>1. CASE UNCHANGED healthy
    BY <2>1 DEF ListenersInv, ListsOK
  <2>2. CASE healthy' = [healthy EXCEPT ![s] = FALSE]
    BY <2>2 DEF ListenersInv, ListsOK
  <2> QED
    BY <2>1, <2>2 DEF HandlerStep, Reject, Accept, Enlist, Notices, Leave, Breaks
<1>2. ListsOK'
  <2>1. handler' \in [Sockets -> Steps]
    BY DEF HandlerStep, Reject, Accept, Enlist, Notices, Leave, Breaks, ListenersInv, ListsOK, Steps
  <2>2. \A j \in Listened : Connected(j)' \subseteq Sockets
    BY <1>4 DEF ListenersInv, ListsOK
  <2> QED
    BY <1>1, <1>6, <2>1, <2>2 DEF ListenersInv, ListsOK
<1>5. ASSUME NEW c \in Sockets PROVE ClientOK(c)' /\ \A e \in Emitters : StreamOK(c, e)'
  <2>1. ClientOK(c) /\ TaskOf[c] \in Listened /\ (MayListen(c)' <=> MayListen(c))
    BY <1>1, ListenersAssumption DEF ListenersInv, MayListen
  <2>2. ClientOK(c)'
    BY <1>1, <1>3, <1>4, <2>1 DEF ClientOK
  <2>3. ASSUME NEW e \in Emitters PROVE StreamOK(c, e)'
    <3>1. StreamOK(c, e)
      BY DEF ListenersInv
    <3> QED
      BY <1>1, <1>3, <1>4, <1>6, <2>1, <3>1 DEF StreamOK, Newest
  <2> QED
    BY <2>2, <2>3
<1> QED
  BY <1>2, <1>5 DEF ListenersInv

\* The snapshot: who is connected and not broken has received the event of this
\* emitter before this one.
LEMMA EmitKeeps ==
  ASSUME ListenersInv, NEW k \in Emitters, Emit(k)
  PROVE  ListenersInv'
<1>1. /\ UNCHANGED <<handler, token, healthy, failing, cancelled, received>>
      /\ targets[k] = {} /\ failing[k] = {} /\ k \notin cancelled
      /\ \A j : Connected(j)' = Connected(j)
  BY DEF Emit, Emitting, Connected
<1>2. /\ \A e \in Emitters : targets'[e] = IF e = k THEN Connected(EmitsFor[k]) ELSE targets[e]
      /\ \A e \in Emitters : events'[e] = IF e = k THEN events[k] + 1 ELSE events[e]
      /\ EmitsFor[k] \in Listened
  BY ListenersAssumption DEF Emit, ListenersInv, ListsOK
<1>3. ListsOK'
  <2>1. Connected(EmitsFor[k]) \subseteq Sockets /\ events[k] \in Nat
    BY <1>2 DEF ListenersInv, ListsOK
  <2>2. targets' \in [Emitters -> SUBSET Sockets] /\ events' \in [Emitters -> Nat]
    BY <2>1 DEF Emit, ListenersInv, ListsOK
  <2> QED
    BY <1>1, <1>2, <2>2 DEF ListenersInv, ListsOK
<1>4. ASSUME NEW c \in Sockets PROVE ClientOK(c)' /\ \A e \in Emitters : StreamOK(c, e)'
  <2>1. ClientOK(c) /\ TaskOf[c] \in Listened /\ (MayListen(c)' <=> MayListen(c))
    BY <1>1, ListenersAssumption DEF ListenersInv, MayListen
  <2>2. ClientOK(c)'
    BY <1>1, <2>1 DEF ClientOK
  <2>3. ASSUME NEW e \in Emitters PROVE StreamOK(c, e)'
    <3>1. StreamOK(c, e) /\ events[e] \in Nat
      BY DEF ListenersInv, ListsOK
    <3>2. CASE e # k
      BY <1>1, <1>2, <2>1, <3>1, <3>2 DEF StreamOK, Newest
    <3>3. CASE e = k /\ c \in Connected(EmitsFor[k])
      <4>1. EmitsFor[k] = TaskOf[c]
        BY <1>2, <2>1, <3>3 DEF ClientOK
      <4>2. c \in Connected(TaskOf[c]) /\ c \notin targets[k] /\ c \in targets'[k] /\ k \notin cancelled
        BY <1>1, <1>2, <3>3, <4>1
      <4>3. MayListen(c) /\ handler[c] \notin {"start", "accepted"}
        BY <2>1, <4>2 DEF ClientOK
      <4>4. events'[k] - 1 = events[k]
        BY <1>2, <3>1, <3>3
      <4>5. received[c][k] # <<>> /\ healthy[c] => Newest(received[c][k]) = events[k]
        BY <3>1, <3>3, <4>2 DEF StreamOK
      <4> QED
        BY <1>1, <2>1, <3>1, <3>3, <4>1, <4>2, <4>3, <4>4, <4>5 DEF StreamOK, Newest
    <3>4. CASE e = k /\ c \notin Connected(EmitsFor[k])
      BY <1>1, <1>2, <2>1, <3>1, <3>4 DEF StreamOK, Newest
    <3> QED
      BY <3>2, <3>3, <3>4
  <2> QED
    BY <2>2, <2>3
<1> QED
  BY <1>3, <1>4 DEF ListenersInv

\* A sequence of consecutive numbers, one longer.
LEMMA AppendFollows ==
  ASSUME NEW old \in Seq(Nat), NEW n \in Nat, NEW new, new = Append(old, n),
         old # <<>> => /\ \A i \in DOMAIN old : old[i] = old[1] + i - 1
                       /\ Newest(old) = n - 1
  PROVE  /\ new \in Seq(Nat) /\ new # <<>> /\ Newest(new) = n
         /\ \A i \in DOMAIN new : new[i] = new[1] + i - 1
<1>1. /\ Len(old) \in Nat /\ Len(new) = Len(old) + 1 /\ DOMAIN new = 1..(Len(old) + 1)
      /\ new[Len(old) + 1] = n /\ \A i \in 1..Len(old) : new[i] = old[i]
      /\ \A i \in 1..Len(old) : old[i] \in Nat
      /\ DOMAIN old = 1..Len(old) /\ new \in Seq(Nat)
      /\ old = <<>> <=> Len(old) = 0
  OBVIOUS
<1>2. CASE Len(old) = 0
  BY <1>1, <1>2 DEF Newest
<1>3. CASE Len(old) > 0
  <2>1. 1 \in 1..Len(old) /\ Len(old) \in 1..Len(old) /\ old # <<>>
    BY <1>1, <1>3
  <2>2. new[1] = old[1] /\ old[1] \in Nat /\ old[Len(old)] = old[1] + Len(old) - 1 /\ old[Len(old)] = n - 1
    BY <1>1, <2>1 DEF Newest
  <2>3. n = old[1] + Len(old)
    <3>1. \A x, l, m \in Nat : m - 1 = x + l - 1 => m = x + l
      OBVIOUS
    <3> QED
      BY <1>1, <2>2, <3>1
  <2>4. \A i \in 1..Len(old) : new[i] = new[1] + i - 1
    BY <1>1, <2>1, <2>2
  <2>5. new # <<>> /\ Newest(new) = n
    BY <1>1 DEF Newest
  <2>6. new[Len(old) + 1] = new[1] + (Len(old) + 1) - 1
    BY <1>1, <2>2, <2>3
  <2>7. \A i \in DOMAIN new : i \in 1..Len(old) \/ i = Len(old) + 1
    BY <1>1
  <2> QED
    BY <1>1, <2>4, <2>5, <2>6, <2>7
<1> QED
  BY <1>1, <1>2, <1>3

LEMMA SendKeeps ==
  ASSUME ListenersInv, NEW k \in Emitters, Send(k)
  PROVE  ListenersInv'
<1> PICK s \in targets[k] :
      /\ healthy[s]
      /\ targets' = [targets EXCEPT ![k] = @ \ {s}]
      /\ received' = [received EXCEPT ![s][k] = Append(@, events[k])]
  BY DEF Send
<1>1. /\ UNCHANGED <<handler, token, healthy, events, failing, cancelled>>
      /\ failing[k] = {} /\ \A j : Connected(j)' = Connected(j)
  BY DEF Send, Connected
<1>2. s \in Sockets /\ events[k] \in Nat /\ StreamOK(s, k)
  BY DEF ListenersInv, ListsOK
<1>6. healthy[s]
  OBVIOUS
<1>3. /\ \A e \in Emitters : targets'[e] = IF e = k THEN targets[k] \ {s} ELSE targets[e]
      /\ \A c \in Sockets : \A e \in Emitters :
           received'[c][e] = IF c = s /\ e = k THEN Append(received[s][k], events[k]) ELSE received[c][e]
      /\ received' \in [Sockets -> [Emitters -> Seq(Nat)]] /\ targets' \in [Emitters -> SUBSET Sockets]
  BY <1>2 DEF ListenersInv, ListsOK
<1>4. ListsOK'
  BY <1>1, <1>3 DEF ListenersInv, ListsOK
<1>5. ASSUME NEW c \in Sockets PROVE ClientOK(c)' /\ \A e \in Emitters : StreamOK(c, e)'
  <2>1. ClientOK(c) /\ TaskOf[c] \in Listened /\ (MayListen(c)' <=> MayListen(c))
    BY <1>1, ListenersAssumption DEF ListenersInv, MayListen
  <2>2. ClientOK(c)'
    BY <1>1, <2>1 DEF ClientOK
  <2>3. ASSUME NEW e \in Emitters, c # s \/ e # k PROVE StreamOK(c, e)'
    <3>1. StreamOK(c, e)
      BY DEF ListenersInv
    <3> QED
      BY <1>1, <1>2, <1>3, <2>1, <2>3, <3>1 DEF StreamOK, Newest
  <2>4. ASSUME c = s PROVE StreamOK(s, k)'
    <3> DEFINE old == received[s][k]
               new == received'[s][k]
    <3>1. old \in Seq(Nat) /\ new = Append(old, events[k])
      BY <1>2, <1>3 DEF ListenersInv, ListsOK
    <3>2. old # <<>> => /\ \A i \in DOMAIN old : old[i] = old[1] + i - 1
                        /\ Newest(old) = events[k] - 1
      BY <1>2, <1>6 DEF StreamOK
    <3>3. EmitsFor[k] = TaskOf[s] /\ MayListen(s) /\ handler[s] \notin {"start", "accepted"}
      BY <1>2 DEF StreamOK
    <3> HIDE DEF old, new
    <3>4. new # <<>> /\ Newest(new) = events[k] /\ \A i \in DOMAIN new : new[i] = new[1] + i - 1
      <4> DEFINE n == events[k]
      <4>1. /\ n \in Nat /\ old \in Seq(Nat) /\ new = Append(old, n)
            /\ old # <<>> => (\A i \in DOMAIN old : old[i] = old[1] + i - 1) /\ Newest(old) = n - 1
        BY <1>2, <3>1, <3>2
      <4> HIDE DEF n
      <4>2. new # <<>> /\ Newest(new) = n /\ \A i \in DOMAIN new : new[i] = new[1] + i - 1
        BY <4>1, AppendFollows, Zenon
      <4> QED
        BY <4>2 DEF n
    <3>5. s \notin targets'[k]
      BY <1>3
    <3> QED
      BY <1>1, <2>1, <2>4, <3>3, <3>4, <3>5 DEF StreamOK, new
  <2> QED
    BY <2>2, <2>3, <2>4
<1> QED
  BY <1>4, <1>5 DEF ListenersInv

\* An emitter that fails, disconnects a client or is cancelled takes clients off
\* its own event and off the list, and a healthy one only with the cancelled event.
LEMMA FailureKeeps ==
  ASSUME ListenersInv, NEW k \in Emitters, SendFails(k) \/ DropFailed(k) \/ LoopCancelled(k)
  PROVE  ListenersInv'
<1>1. UNCHANGED <<handler, token, healthy, events, received>> /\ EmitsFor[k] \in Listened
  BY ListenersAssumption DEF SendFails, DropFailed, LoopCancelled
<1>2. /\ \A e \in Emitters : targets'[e] \subseteq targets[e] /\ (e \in cancelled => e \in cancelled')
      /\ \A j \in Listened : Connected(j)' \subseteq Connected(j)
      /\ \A e \in Emitters : \A c \in Sockets :
           c \in targets[e] \ targets'[e] => ~healthy[c] \/ e \in cancelled'
      /\ ListsOK'
  <2>1. CASE SendFails(k)
    <3>1. UNCHANGED <<connections, cancelled>> /\ failing[k] = {}
      BY <2>1 DEF SendFails
    <3>2. PICK s \in targets[k] : /\ ~healthy[s] /\ targets' = [targets EXCEPT ![k] = @ \ {s}]
                                 /\ failing' = [failing EXCEPT ![k] = {s}]
      BY <2>1 DEF SendFails
    <3>3. \A j : Connected(j)' = Connected(j)
      BY <3>1 DEF Connected
    <3>4. \A e \in Emitters : /\ targets'[e] = IF e = k THEN targets[k] \ {s} ELSE targets[e]
                              /\ failing'[e] = IF e = k THEN {s} ELSE failing[e]
      BY <3>2 DEF ListenersInv, ListsOK
    <3>5. s \in Sockets /\ k \notin cancelled
      BY <3>2 DEF ListenersInv, ListsOK
    <3>6. targets' \in [Emitters -> SUBSET Sockets] /\ failing' \in [Emitters -> SUBSET Sockets]
      BY <3>2, <3>5 DEF ListenersInv, ListsOK
    <3> QED
      BY <1>1, <3>1, <3>2, <3>3, <3>4, <3>5, <3>6 DEF ListenersInv, ListsOK
  <2>2. CASE DropFailed(k)
    <3>1. PICK s \in failing[k] : Disconnect(EmitsFor[k], s)
      BY <2>2 DEF DropFailed
    <3>2. failing' = [failing EXCEPT ![k] = {}] /\ UNCHANGED <<targets, cancelled>>
      BY <2>2 DEF DropFailed
    <3>3. \A j : Connected(j)' = IF j = EmitsFor[k] THEN Connected(EmitsFor[k]) \ {s} ELSE Connected(j)
      BY <3>1, DisconnectRemoves
    <3>4. \A e \in Emitters : failing'[e] = IF e = k THEN {} ELSE failing[e]
      BY <3>2 DEF ListenersInv, ListsOK
    <3> QED
      BY <1>1, <3>2, <3>3, <3>4 DEF ListenersInv, ListsOK
  <2>3. CASE LoopCancelled(k)
    <3>1. UNCHANGED connections /\ cancelled' = cancelled \cup {k}
      BY <2>3 DEF LoopCancelled
    <3>2. targets' = [targets EXCEPT ![k] = {}] /\ failing' = [failing EXCEPT ![k] = {}]
      BY <2>3 DEF LoopCancelled
    <3>3. \A j : Connected(j)' = Connected(j)
      BY <3>1 DEF Connected
    <3>4. \A e \in Emitters : /\ targets'[e] = IF e = k THEN {} ELSE targets[e]
                              /\ failing'[e] = IF e = k THEN {} ELSE failing[e]
      BY <3>2 DEF ListenersInv, ListsOK
    <3>5. targets' \in [Emitters -> SUBSET Sockets] /\ failing' \in [Emitters -> SUBSET Sockets]
      BY <3>2 DEF ListenersInv, ListsOK
    <3> QED
      BY <1>1, <3>1, <3>3, <3>4, <3>5 DEF ListenersInv, ListsOK
  <2> QED
    BY <2>1, <2>2, <2>3
<1>3. ASSUME NEW c \in Sockets PROVE ClientOK(c)' /\ \A e \in Emitters : StreamOK(c, e)'
  <2>1. ClientOK(c) /\ TaskOf[c] \in Listened /\ (MayListen(c)' <=> MayListen(c))
    BY <1>1, ListenersAssumption DEF ListenersInv, MayListen
  <2>2. ClientOK(c)'
    BY <1>1, <1>2, <2>1 DEF ClientOK
  <2>3. ASSUME NEW e \in Emitters PROVE StreamOK(c, e)'
    <3>1. StreamOK(c, e)
      BY DEF ListenersInv
    <3> QED
      BY <1>1, <1>2, <2>1, <3>1 DEF StreamOK, Newest
  <2> QED
    BY <2>2, <2>3
<1> QED
  BY <1>2, <1>3 DEF ListenersInv

LEMMA ListenersStepInv == ListenersInv /\ [ListenersNext]_listenerVars => ListenersInv'
<1> SUFFICES ASSUME ListenersInv, [ListenersNext]_listenerVars PROVE ListenersInv'
  OBVIOUS
<1>1. CASE UNCHANGED listenerVars
  <2>1. UNCHANGED <<handler, token, healthy, connections, events, targets, failing, cancelled, received>>
    BY <1>1 DEF listenerVars, emitterVars
  <2>2. \A j : Connected(j)' = Connected(j)
    BY <2>1 DEF Connected
  <2>3. ListsOK'
    BY <2>1, <2>2 DEF ListenersInv, ListsOK
  <2>4. \A s \in Sockets : ClientOK(s)'
    BY <2>1, <2>2, ListenersAssumption DEF ListenersInv, ClientOK, MayListen
  <2>5. ASSUME NEW s \in Sockets, NEW e \in Emitters PROVE StreamOK(s, e)'
    <3>1. StreamOK(s, e) /\ Connected(TaskOf[s])' = Connected(TaskOf[s])
      BY <2>2 DEF ListenersInv
    <3> QED
      BY <2>1, <3>1 DEF StreamOK, MayListen, Newest
  <2> QED
    BY <2>3, <2>4, <2>5 DEF ListenersInv
<1> QED
  BY <1>1, HandlerKeeps, EmitKeeps, SendKeeps, FailureKeeps DEF ListenersNext, EmitterStep

\* A client that listens receives the events of each emitter in order and without
\* a gap, however many emitters send at once and however many clients come, go
\* and break in the middle of an event; nobody else receives any.
THEOREM ClientsHearInOrder == ListenersSpec => []EventsInOrder
<1>1. ListenersInv => EventsInOrder
  BY DEF ListenersInv, StreamOK, EventsInOrder
<1> QED
  BY <1>1, ListenersInitInv, ListenersStepInv, PTL DEF ListenersSpec

\* Whoever is sent an event is sent one that has been emitted.
ListenersOK == ListenersTypeOK /\ \A e \in Emitters : targets[e] # {} => events[e] # 0

LEMMA ListenersInitTypes == ListenersInit => ListenersOK
BY ListenersAssumption DEF ListenersInit, ListenersOK, ListenersTypeOK, Steps

LEMMA DisconnectTypes ==
  ASSUME ListenersTypeOK, NEW k \in Listened, NEW s, Disconnect(k, s)
  PROVE  /\ DOMAIN connections' \subseteq Listened
         /\ \A j \in DOMAIN connections' :
              connections'[j] # {} /\ connections'[j] \subseteq {q \in Sockets : TaskOf[q] = j}
BY DEF Disconnect, WithEntry, WithoutEntry, Connected, ListenersTypeOK

LEMMA ListenersStepTypes == ListenersOK /\ [ListenersNext]_listenerVars => ListenersOK'
<1> SUFFICES ASSUME ListenersOK, [ListenersNext]_listenerVars PROVE ListenersOK'
  OBVIOUS
<1> USE ListenersAssumption DEF ListenersOK, ListenersTypeOK
<1>1. ASSUME NEW s \in Sockets, Reject(s) \/ Accept(s) \/ Notices(s) PROVE ListenersOK'
  BY <1>1 DEF Reject, Accept, Notices, Steps, emitterVars
<1>10. ASSUME NEW s \in Sockets, Breaks(s) PROVE ListenersOK'
  BY <1>10 DEF Breaks, emitterVars
<1>2. ASSUME NEW s \in Sockets, Enlist(s) PROVE ListenersOK'
  <2>1. TaskOf[s] \in Listened
    OBVIOUS
  <2>2. /\ DOMAIN connections' \subseteq Listened
        /\ \A j \in DOMAIN connections' :
             connections'[j] # {} /\ connections'[j] \subseteq {q \in Sockets : TaskOf[q] = j}
    <3> DEFINE clients == Connected(TaskOf[s]) \cup {s}
    <3>1. clients # {} /\ clients \subseteq {q \in Sockets : TaskOf[q] = TaskOf[s]}
      BY <2>1 DEF Connected
    <3>2. connections' = WithEntry(TaskOf[s], clients)
      BY <1>2 DEF Enlist
    <3> HIDE DEF clients
    <3> QED
      BY <2>1, <3>1, <3>2 DEF WithEntry
  <2> QED
    BY <1>2, <2>2 DEF Enlist, Steps, emitterVars
<1>3. ASSUME NEW s \in Sockets, Leave(s) PROVE ListenersOK'
  <2>1. TaskOf[s] \in Listened
    OBVIOUS
  <2> QED
    BY <1>3, <2>1, DisconnectTypes DEF Leave, Steps, emitterVars
<1>4. ASSUME NEW k \in Emitters, Emit(k) PROVE ListenersOK'
  <2>1. Connected(EmitsFor[k]) \subseteq Sockets
    BY DEF Connected
  <2> QED
    BY <1>4, <2>1 DEF Emit
<1>5. ASSUME NEW k \in Emitters, Send(k) PROVE ListenersOK'
  <2>1. PICK s \in targets[k] : /\ targets' = [targets EXCEPT ![k] = @ \ {s}]
                               /\ received' = [received EXCEPT ![s][k] = Append(@, events[k])]
    BY <1>5 DEF Send
  <2>2. s \in Sockets /\ events[k] \in 1..MaxEvents /\ received[s][k] \in Seq(1..MaxEvents)
    BY <2>1
  <2>3. received' \in [Sockets -> [Emitters -> Seq(1..MaxEvents)]]
    BY <2>1, <2>2
  <2> QED
    BY <1>5, <2>1, <2>3 DEF Send
<1>6. ASSUME NEW k \in Emitters, SendFails(k) PROVE ListenersOK'
  BY <1>6 DEF SendFails
<1>7. ASSUME NEW k \in Emitters, DropFailed(k) PROVE ListenersOK'
  <2>1. PICK s \in failing[k] : Disconnect(EmitsFor[k], s)
    BY <1>7 DEF DropFailed
  <2> QED
    BY <1>7, <2>1, DisconnectTypes DEF DropFailed
<1>9. ASSUME NEW k \in Emitters, LoopCancelled(k) PROVE ListenersOK'
  BY <1>9 DEF LoopCancelled
<1>8. CASE UNCHANGED listenerVars
  BY <1>8 DEF listenerVars, emitterVars
<1> QED
  BY <1>1, <1>2, <1>3, <1>4, <1>5, <1>6, <1>7, <1>8, <1>9, <1>10 DEF ListenersNext, HandlerStep, EmitterStep

-----------------------------------------------------------------------------
(* Uploaded files *)

HasContent(r) == freq[r].step \in {"hash", "write", "user", "insert"}
HasUpload(r)  == At(r, "user") \/ At(r, "insert")
HasTarget(r)  == freq[r].step \in {"find", "unlink", "erase"}
HasFound(r)   == At(r, "unlink") \/ At(r, "erase")

\* What a request has in hand fits its step.
HandInv ==
  \A r \in FileRequests :
    /\ HasContent(r) => freq[r].content \in Contents
    /\ HasUpload(r) \/ HasTarget(r) => freq[r].file \in drawn

\* A file that is being uploaded is on disk, has no row, and is nobody else's.
UploadInv ==
  \A r \in FileRequests : HasUpload(r) =>
    /\ freq[r].file \in disk /\ freq[r].file \notin DOMAIN rows
    /\ \A q \in FileRequests \ {r} :
         HasUpload(q) \/ HasFound(q) => freq[q].file # freq[r].file

\* What a delete has unlinked does not come back.
UnlinkedInv == \A r \in FileRequests : At(r, "erase") => freq[r].file \notin disk

FileInv ==
  FilesTypeOK /\ HandInv /\ UploadInv /\ UnlinkedInv /\ RowsHaveFiles /\ DiskIsAccountedFor

-----------------------------------------------------------------------------
LEMMA FileInitInv == FilesInit => FileInv
<1> SUFFICES ASSUME FilesInit PROVE FileInv
  OBVIOUS
<1>1. FilesTypeOK
  BY DEF FilesInit, FilesTypeOK, Idle, FileSteps
<1>2. HandInv /\ UploadInv /\ UnlinkedInv
  BY DEF FilesInit, HandInv, UploadInv, UnlinkedInv, HasContent, HasUpload, HasTarget, At, Idle
<1>3. RowsHaveFiles /\ DiskIsAccountedFor
  BY DEF FilesInit, RowsHaveFiles, DiskIsAccountedFor
<1> QED
  BY <1>1, <1>2, <1>3 DEF FileInv

\* Uploads, from the form to the row.
LEMMA UploadKeeps ==
  ASSUME FileInv, NEW r \in FileRequests, NEW c \in Contents,
         Upload(r, c) \/ FindDuplicate(r) \/ LoadOwner(r)
  PROVE  FileInv'
<1> USE DEF FileInv, At, Goto, Done, Idle, FileSteps
<1>1. FilesTypeOK'
  BY DEF FilesTypeOK, HandInv, HasUpload, Upload, FindDuplicate, LoadOwner
<1>2. HandInv'
  BY DEF FilesTypeOK, HandInv, HasContent, HasUpload, HasTarget, Upload, FindDuplicate, LoadOwner
<1>3. UploadInv' /\ UnlinkedInv'
  BY DEF FilesTypeOK, UploadInv, UnlinkedInv, HasUpload, HasFound, Upload, FindDuplicate, LoadOwner
<1>4. RowsHaveFiles'
  BY DEF FilesTypeOK, RowsHaveFiles, Deleting, Upload, FindDuplicate, LoadOwner
<1>5. DiskIsAccountedFor'
  BY DEF FilesTypeOK, DiskIsAccountedFor, Uploading, Upload, FindDuplicate, LoadOwner
<1> QED
  BY <1>1, <1>2, <1>3, <1>4, <1>5

\* The name is fresh, so nobody else has it in hand.
LEMMA WriteFileKeeps ==
  ASSUME FileInv, NEW r \in FileRequests, WriteToDisk(r)
  PROVE  FileInv'
<1> USE DEF FileInv, At, FileSteps
<1> PICK f \in FileIds \ drawn :
      /\ drawn' = drawn \cup {f} /\ disk' = disk \cup {f}
      /\ freq' = [freq EXCEPT ![r].step = "user", ![r].file = f]
  BY DEF WriteToDisk
<1>1. UNCHANGED <<rows, owner, cut, orphaned>> /\ At(r, "write")
  BY DEF WriteToDisk
<1>2. FilesTypeOK'
  BY <1>1 DEF FilesTypeOK
<1>3. HandInv'
  BY <1>1 DEF FilesTypeOK, HandInv, HasContent, HasUpload, HasTarget
<1>4. UploadInv'
  BY <1>1 DEF FilesTypeOK, HandInv, UploadInv, HasUpload, HasTarget, HasFound
<1>5. UnlinkedInv'
  BY <1>1 DEF FilesTypeOK, HandInv, UnlinkedInv, HasTarget
<1>6. RowsHaveFiles'
  BY <1>1 DEF FilesTypeOK, RowsHaveFiles, Deleting
<1>7. DiskIsAccountedFor'
  BY <1>1 DEF FilesTypeOK, DiskIsAccountedFor, Uploading
<1> QED
  BY <1>2, <1>3, <1>4, <1>5, <1>6, <1>7

LEMMA InsertRowKeeps ==
  ASSUME FileInv, NEW r \in FileRequests, InsertRow(r)
  PROVE  FileInv'
<1> USE DEF FileInv, At, Done, Idle, FileSteps
<1> DEFINE f == freq[r].file
<1>1. /\ At(r, "insert") /\ freq' = [freq EXCEPT ![r] = Idle]
      /\ UNCHANGED <<disk, drawn, owner, cut>>
  BY DEF InsertRow
<1>2. \/ /\ DOMAIN rows' = DOMAIN rows \cup {f} /\ orphaned' = orphaned
         /\ rows'[f] = freq[r].content /\ \A g \in DOMAIN rows \ {f} : rows'[g] = rows[g]
      \/ rows' = rows /\ orphaned' = orphaned \cup {f}
  BY DEF InsertRow
<1>3. f \in drawn /\ f \in disk /\ freq[r].content \in Contents
  BY <1>1 DEF HandInv, UploadInv, HasContent, HasUpload
<1>4. FilesTypeOK'
  BY <1>1, <1>2, <1>3 DEF FilesTypeOK
<1>5. HandInv' /\ UnlinkedInv'
  BY <1>1 DEF FilesTypeOK, HandInv, UnlinkedInv, HasContent, HasUpload, HasTarget
<1>6. UploadInv'
  BY <1>1, <1>2 DEF FilesTypeOK, UploadInv, HasUpload, HasFound
<1>7. RowsHaveFiles'
  BY <1>1, <1>2, <1>3 DEF FilesTypeOK, RowsHaveFiles, Deleting
<1>8. DiskIsAccountedFor'
  BY <1>1, <1>2 DEF FilesTypeOK, DiskIsAccountedFor, Uploading
<1> QED
  BY <1>4, <1>5, <1>6, <1>7, <1>8

\* Deletes: a row that is found is not of a file being uploaded.
LEMMA DeleteKeeps ==
  ASSUME FileInv, NEW r \in FileRequests, NEW f \in drawn, Delete(r, f) \/ FindRow(r)
  PROVE  FileInv'
<1> USE DEF FileInv, At, Goto, Done, Idle, FileSteps
<1>1. FilesTypeOK' /\ HandInv'
  BY DEF FilesTypeOK, HandInv, HasContent, HasUpload, HasTarget, Delete, FindRow
<1>2. UploadInv' /\ UnlinkedInv'
  BY DEF FilesTypeOK, UploadInv, UnlinkedInv, HasUpload, HasFound, Delete, FindRow
<1>3. RowsHaveFiles'
  BY DEF FilesTypeOK, RowsHaveFiles, Deleting, Delete, FindRow
<1>4. DiskIsAccountedFor'
  BY DEF FilesTypeOK, DiskIsAccountedFor, Uploading, Delete, FindRow
<1> QED
  BY <1>1, <1>2, <1>3, <1>4

LEMMA UnlinkKeeps ==
  ASSUME FileInv, NEW r \in FileRequests, Unlink(r)
  PROVE  FileInv'
<1> USE DEF FileInv, At, Goto, FileSteps, Unlink
<1>1. FilesTypeOK' /\ HandInv' /\ UnlinkedInv'
  BY DEF FilesTypeOK, HandInv, UnlinkedInv, HasContent, HasUpload, HasTarget
<1>2. UploadInv'
  BY DEF FilesTypeOK, UploadInv, HasUpload, HasFound
<1>3. RowsHaveFiles'
  BY DEF FilesTypeOK, RowsHaveFiles, Deleting
<1>4. DiskIsAccountedFor'
  BY DEF FilesTypeOK, DiskIsAccountedFor, Uploading
<1> QED
  BY <1>1, <1>2, <1>3, <1>4

LEMMA EraseFileKeeps ==
  ASSUME FileInv, NEW r \in FileRequests, EraseRow(r)
  PROVE  FileInv'
<1> USE DEF FileInv, At, Done, Idle, FileSteps, EraseRow
<1>1. FilesTypeOK' /\ HandInv' /\ UnlinkedInv'
  BY DEF FilesTypeOK, HandInv, UnlinkedInv, HasContent, HasUpload, HasTarget
<1>2. UploadInv'
  BY DEF FilesTypeOK, UploadInv, HasUpload, HasFound
<1>3. RowsHaveFiles'
  BY DEF FilesTypeOK, RowsHaveFiles, Deleting
<1>4. DiskIsAccountedFor'
  BY DEF FilesTypeOK, UnlinkedInv, DiskIsAccountedFor, Uploading
<1> QED
  BY <1>1, <1>2, <1>3, <1>4

LEMMA OwnerGoes ==
  ASSUME FileInv, DeleteOwner
  PROVE  FileInv'
<1> USE DEF FileInv, At, DeleteOwner
<1>1. FilesTypeOK' /\ HandInv' /\ UploadInv' /\ UnlinkedInv'
  BY DEF FilesTypeOK, HandInv, UploadInv, UnlinkedInv, HasContent, HasUpload, HasTarget, HasFound
<1>2. RowsHaveFiles' /\ DiskIsAccountedFor'
  BY DEF FilesTypeOK, RowsHaveFiles, DiskIsAccountedFor, Uploading
<1> QED
  BY <1>1, <1>2

LEMMA AbortKeeps ==
  ASSUME FileInv, NEW r \in FileRequests, Abort(r)
  PROVE  FileInv'
<1> USE DEF FileInv, At, Done, Idle, FileSteps, Abort
<1>1. FilesTypeOK'
  BY DEF FilesTypeOK, HandInv, HasUpload, HasTarget
<1>2. HandInv' /\ UploadInv' /\ UnlinkedInv'
  BY DEF FilesTypeOK, HandInv, UploadInv, UnlinkedInv, HasContent, HasUpload, HasTarget, HasFound
<1>3. RowsHaveFiles'
  BY DEF FilesTypeOK, RowsHaveFiles, Deleting
<1>4. DiskIsAccountedFor'
  BY DEF FilesTypeOK, DiskIsAccountedFor, Uploading
<1> QED
  BY <1>1, <1>2, <1>3, <1>4

LEMMA FileStepInv == FileInv /\ [FilesNext]_fileVars => FileInv'
<1> SUFFICES ASSUME FileInv, [FilesNext]_fileVars PROVE FileInv'
  OBVIOUS
<1>1. ASSUME NEW r \in FileRequests, FileStep(r) \/ Abort(r) PROVE FileInv'
  <2>1. CASE FindDuplicate(r) \/ LoadOwner(r)
    <3>1. PICK c : c \in Contents
      BY <2>1 DEF FileInv, HandInv, HasContent, HasUpload, FindDuplicate, LoadOwner, At
    <3> QED
      BY <2>1, <3>1, UploadKeeps
  <2>2. CASE FindRow(r)
    <3>1. freq[r].file \in drawn
      BY <2>2 DEF FileInv, HandInv, HasTarget, FindRow, At
    <3> QED
      BY <2>2, <3>1, DeleteKeeps
  <2> QED
    BY <1>1, <2>1, <2>2, WriteFileKeeps, InsertRowKeeps, UnlinkKeeps, EraseFileKeeps, AbortKeeps DEF FileStep
<1>2. ASSUME NEW r \in FileRequests, NEW c \in Contents, Upload(r, c) PROVE FileInv'
  BY <1>2, UploadKeeps
<1>3. ASSUME NEW r \in FileRequests, NEW f \in drawn, Delete(r, f) PROVE FileInv'
  BY <1>3, DeleteKeeps
<1>4. CASE UNCHANGED fileVars
  BY <1>4 DEF fileVars, FileInv, FilesTypeOK, HandInv, UploadInv, UnlinkedInv, RowsHaveFiles, DiskIsAccountedFor,
              HasContent, HasUpload, HasTarget, HasFound, Deleting, Uploading, At
<1> QED
  BY <1>1, <1>2, <1>3, <1>4, OwnerGoes DEF FilesNext

LEMMA FilesInductive == FilesSpec => []FileInv
  BY FileInitInv, FileStepInv, PTL DEF FilesSpec

\* A listed file is on disk, but for a delete that is under way or was cut
\* (files/service.py:70-78).
THEOREM ListedFilesExist == FilesSpec => []RowsHaveFiles
<1>1. FileInv => RowsHaveFiles
  BY DEF FileInv
<1> QED
  BY <1>1, FilesInductive, PTL

\* A file without a row is of an upload that is under way or failed, or of a
\* user who has gone (files/service.py:45-62).
THEOREM StrayFilesExplained == FilesSpec => []DiskIsAccountedFor
<1>1. FileInv => DiskIsAccountedFor
  BY DEF FileInv
<1> QED
  BY <1>1, FilesInductive, PTL

-----------------------------------------------------------------------------
(* After the call *)

SaverRecord == [step : {"load", "fetch", "open", "write", "store", "over"}, row : Session]

ReaderRecord ==
  [step : {"idle", "local", "twilio", "demo", "speak", "served"}, row : Session,
   text : SUBSET Calls, audio : SUBSET (0..MaxCalls), via : {"none", "file", "twilio", "cache", "speech"}]

EndingRecord == [step : {"none", "live", "loaded", "saved", "over"}, was : States]

USE DEF SaverRecord, ReaderRecord, EndingRecord

\* Where the task, its calls, their finalizers and their savers are.
CallsOK ==
  /\ state \in States
  /\ call \in 0..MaxCalls /\ session \in Session /\ session.call \in {0, call}
  /\ callbacks \subseteq Calls /\ verdicts \subseteq Calls /\ late \in BOOLEAN
  /\ recording \subseteq 0..MaxCalls /\ cache.audio \subseteq 0..MaxCalls
  /\ jobs \in [Calls -> SUBSET Jobs]
  /\ saver \in [Calls -> SaverRecord]
  /\ ending \in [Calls -> EndingRecord]
  /\ reader \in [Listeners -> ReaderRecord]
  /\ \A c \in Calls :
       /\ c > call => ending[c].step = "none"
       /\ ending[c].step # "over" => jobs[c] = {} /\ saver[c].step = "load"

\* The finalizer or its saver goes by a row it has loaded.
GoesByRow(c) == ending[c].step \in {"loaded", "saved"} \/ (jobs[c] # {} /\ saver[c].step = "load")

\* A saver whose call the session is of holds this call's row and address; what
\* it has opened is empty, what it has written is this call's recording.
SaverOK(c) ==
  /\ saver[c].step \in {"write", "store"} => saver[c].row.call = c
  /\ ~IsStale(c) =>
       /\ GoesByRow(c) => saver[c].row.call = c /\ saver[c].row.uri \in {0, c}
       /\ saver[c].step \in {"fetch", "open", "write", "store"} => saver[c].row.call = c /\ saver[c].row.uri = c
       /\ saver[c].step = "store" => recording = {c}
       /\ saver[c].step = "write" => recording = {}

\* The row a reader goes by is of no call to come, and so is what it names.
ReaderOK(l) ==
  LET row == reader[l].row
  IN /\ reader[l].step \in {"local", "twilio", "demo", "speak"} =>
          row.uri = row.call /\ row.call <= call /\ (row.local => \A c \in recording : c >= row.call)
     /\ reader[l].step = "speak" => reader[l].text \subseteq {row.call}
     /\ reader[l].step = "served" => reader[l].via = "cache" \/ \A c \in reader[l].audio : c >= row.call

\* What is stored is the call's own.
StoreOK ==
  /\ session.uri \in {0, session.call} /\ session.lines \subseteq {session.call}
  /\ session.local => session.call > 0 /\ recording = {session.call} /\ saver[session.call].step = "over"
  /\ \A c \in Calls : SaverOK(c)
  /\ \A l \in Listeners : ReaderOK(l)

PostCallInv == CallsOK /\ (late \/ StoreOK)

LEMMA NoSessionFits == NoSession \in Session /\ NoSession.call = 0 /\ NoSession.uri = 0 /\ ~NoSession.local
                       /\ NoSession.lines = {}
BY PostCallAssumption DEF NoSession, Session

LEMMA PostCallInitInv == PostCallInit => PostCallInv
<1> SUFFICES ASSUME PostCallInit PROVE PostCallInv
  OBVIOUS
<1>1. CallsOK
  <2>1. NotAsking \in ReaderRecord
    BY NoSessionFits DEF NotAsking
  <2>2. [step |-> "load", row |-> NoSession] \in SaverRecord
    BY NoSessionFits
  <2>3. call \in 0..MaxCalls
    BY PostCallAssumption DEF PostCallInit
  <2>4. [step |-> "none", was |-> "PENDING"] \in EndingRecord
    BY DEF States
  <2> QED
    BY NoSessionFits, <2>1, <2>2, <2>3, <2>4 DEF PostCallInit, CallsOK, Jobs, States
<1>2. StoreOK
  BY NoSessionFits DEF PostCallInit, StoreOK, SaverOK, GoesByRow, ReaderOK, NotAsking
<1> QED
  BY <1>1, <1>2 DEF PostCallInv

\* A call of a session is a call, and none is the number of no session.
LEMMA StaleCalls == CallsOK => call \in Nat /\ \A c \in Calls : c \in Nat /\ c > 0 /\ (~IsStale(c) => c = call)
BY PostCallAssumption DEF CallsOK, Calls, IsStale

LEMMA PlaceCallKeeps == PostCallInv /\ PlaceCall => PostCallInv'
<1> SUFFICES ASSUME PostCallInv, PlaceCall PROVE PostCallInv'
  OBVIOUS
<1>1. /\ call' = call + 1 /\ call < MaxCalls /\ state' = "IN_PROGRESS"
      /\ session' = NewSession(call + 1)
      /\ callbacks' = callbacks \cup {call + 1} /\ verdicts' = verdicts \cup {call + 1}
      /\ UNCHANGED <<jobs, saver, recording, cache, reader, late>>
      /\ CallsOK
  BY DEF PlaceCall, PostCallInv, noticeVars, audioVars
<1>0. call \in Nat /\ call + 1 \in Calls /\ callbacks' \subseteq Calls /\ verdicts' \subseteq Calls
  BY <1>1, StaleCalls, PostCallAssumption DEF CallsOK, Calls
<1>2. /\ session' \in Session /\ session'.call = call + 1 /\ session'.uri = 0 /\ ~session'.local
      /\ session'.lines = {}
  BY <1>0, <1>1, NoSessionFits, PostCallAssumption DEF NewSession, Session, Calls
<1>3. ending' \in [Calls -> EndingRecord] /\ ending'[call + 1].step = "live"
      /\ \A c \in Calls : c # call + 1 => ending'[c] = ending[c]
  BY <1>0, <1>1 DEF PlaceCall, Ending, CallsOK
<1>4. \A c \in Calls : c > call => ending[c].step = "none" /\ jobs[c] = {} /\ saver[c].step = "load"
  BY <1>0, <1>1 DEF CallsOK
<1>5. CallsOK'
  <2>1. \A c \in Calls :
          /\ c > call' => ending'[c].step = "none"
          /\ ending'[c].step # "over" => jobs'[c] = {} /\ saver'[c].step = "load"
    BY <1>0, <1>1, <1>3, <1>4, StaleCalls DEF CallsOK
  <2> QED
    BY <1>0, <1>1, <1>2, <1>3, <2>1, PostCallAssumption DEF CallsOK, Calls, States
<1>6. StoreOK => StoreOK'
  <2> SUFFICES ASSUME StoreOK PROVE StoreOK'
    OBVIOUS
  <2>1. ASSUME NEW c \in Calls PROVE SaverOK(c)'
    <3>1. CASE c = call + 1
      BY <1>0, <1>1, <1>3, <1>4, <3>1 DEF SaverOK, GoesByRow
    <3>2. CASE c # call + 1
      BY <1>0, <1>1, <1>2, <3>2 DEF StoreOK, SaverOK, IsStale
    <3> QED
      BY <3>1, <3>2
  <2>2. ASSUME NEW l \in Listeners PROVE ReaderOK(l)'
    BY <1>0, <1>1, PostCallAssumption DEF StoreOK, ReaderOK, CallsOK, Session
  <2> QED
    BY <1>2, <2>1, <2>2 DEF StoreOK
<1> QED
  BY <1>1, <1>5, <1>6 DEF PostCallInv

\* The status changes, or the row goes; what it names does not, and no finalizer
\* has a row that it had not before.
LEMMA RowKeeps ==
  ASSUME PostCallInv,
         UNCHANGED <<call, jobs, saver, recording, cache, reader, late>>,
         state' \in States, callbacks' \subseteq Calls, verdicts' \subseteq Calls,
         ending' \in [Calls -> EndingRecord],
         \A c \in Calls : ending'[c] = ending[c] \/ (ending'[c].step = "over" /\ ending[c].step # "none"),
         session' \in Session, session'.call \in {0, session.call},
         session'.call = session.call =>
           session'.uri \in {0, session.uri} /\ (session'.local => session.local) /\ session'.lines \subseteq session.lines,
         session'.call # session.call => session' = NoSession
  PROVE  PostCallInv'
<1>1. CallsOK'
  <2>1. \A c \in Calls :
          /\ c > call => ending'[c].step = "none"
          /\ ending'[c].step # "over" => jobs[c] = {} /\ saver[c].step = "load"
    BY DEF PostCallInv, CallsOK
  <2> QED
    BY <2>1 DEF PostCallInv, CallsOK
<1>2. StoreOK => StoreOK'
  <2> SUFFICES ASSUME StoreOK PROVE StoreOK'
    OBVIOUS
  <2>1. ASSUME NEW c \in Calls PROVE SaverOK(c)'
    <3>1. c > 0 /\ c \in Nat
      BY StaleCalls DEF PostCallInv
    <3>2. (~IsStale(c))' => ~IsStale(c)
      BY <3>1 DEF IsStale
    <3>3. GoesByRow(c)' => GoesByRow(c)
      BY DEF GoesByRow
    <3> QED
      BY <3>2, <3>3 DEF StoreOK, SaverOK
  <2>2. ASSUME NEW l \in Listeners PROVE ReaderOK(l)'
    BY DEF StoreOK, ReaderOK
  <2>3. session'.uri \in {0, session'.call} /\ session'.lines \subseteq {session'.call}
    BY NoSessionFits DEF StoreOK
  <2>4. session'.local => session'.call > 0 /\ recording = {session'.call} /\ saver[session'.call].step = "over"
    BY NoSessionFits DEF StoreOK
  <2> QED
    BY <2>1, <2>2, <2>3, <2>4 DEF StoreOK
<1> QED
  BY <1>1, <1>2 DEF PostCallInv

LEMMA RetryKeeps == ASSUME PostCallInv, Retry PROVE PostCallInv'
<1>1. UNCHANGED <<call, callbacks, verdicts, ending, jobs, saver, recording, cache, reader, late>>
  BY DEF Retry, AskRetry, DeleteLines, DeleteSession, RetryRaises, Requeue, noticeVars, audioVars
<1>2. state' \in States
  BY DEF Retry, AskRetry, DeleteLines, DeleteSession, RetryRaises, Requeue, States, PostCallInv, CallsOK
<1>3. session' \in {session, NoSession, [session EXCEPT !.lines = {}]}
  BY DEF Retry, AskRetry, DeleteLines, DeleteSession, RetryRaises, Requeue
<1>4. /\ [session EXCEPT !.lines = {}] \in Session
      /\ [session EXCEPT !.lines = {}].lines = {}
      /\ \A f \in {"call", "uri", "local"} : [session EXCEPT !.lines = {}][f] = session[f]
  BY DEF PostCallInv, CallsOK, Session
<1>5. /\ session' \in Session /\ session'.call \in {0, session.call}
      /\ session'.call = session.call =>
           session'.uri \in {0, session.uri} /\ (session'.local => session.local) /\ session'.lines \subseteq session.lines
      /\ session'.call # session.call => session' = NoSession
  BY <1>3, <1>4, NoSessionFits DEF PostCallInv, CallsOK
<1> QED
  BY <1>1, <1>2, <1>5, RowKeeps DEF PostCallInv, CallsOK

\* The task fails, a finalizer gives up, and the session stays.
LEMMA VerdictKeeps ==
  ASSUME PostCallInv, NEW c \in Calls, NotPickedUp(c) \/ MachineDetected(c) \/ FinalizeRaises(c)
  PROVE  PostCallInv'
<1>1. /\ UNCHANGED <<call, session, jobs, saver, recording, cache, reader, late>>
      /\ callbacks' \subseteq callbacks /\ verdicts' \subseteq verdicts
  BY DEF NotPickedUp, MachineDetected, FinalizeRaises, noticeVars, audioVars
<1>2. state' \in States
  BY DEF NotPickedUp, MachineDetected, FinalizeRaises, FailTask, States, Outcomes, PostCallInv, CallsOK
<1>3. UNCHANGED ending \/ (Ended(c) /\ ending[c].step # "none")
  BY DEF NotPickedUp, MachineDetected, FinalizeRaises
<1>4. /\ ending' \in [Calls -> EndingRecord]
      /\ \A d \in Calls : ending'[d] = ending[d] \/ (ending'[d].step = "over" /\ ending[d].step # "none")
  <2>1. [step |-> "over", was |-> "PENDING"] \in EndingRecord
    BY DEF States
  <2> QED
    BY <1>3, <2>1 DEF Ended, PostCallInv, CallsOK
<1>5. session \in Session /\ callbacks \subseteq Calls /\ verdicts \subseteq Calls
  BY DEF PostCallInv, CallsOK
<1> QED
  BY <1>1, <1>2, <1>4, <1>5, RowKeeps

\* What a finalizer has loaded is the session's row, if it is of its call.
LEMMA FinalizeLoadKeeps == ASSUME PostCallInv, NEW c \in Calls, FinalizeLoad(c) PROVE PostCallInv'
<1> DEFINE q == [step |-> "loaded", was |-> state]
           s == [saver[c] EXCEPT !.row = session]
<1>1. /\ ending' = [ending EXCEPT ![c] = q] /\ saver' = [saver EXCEPT ![c] = s] /\ ending[c].step = "live"
      /\ UNCHANGED <<state, call, session, callbacks, verdicts, jobs, recording, cache, reader, late>>
  BY DEF FinalizeLoad, noticeVars
<1>2. q \in EndingRecord /\ s \in SaverRecord /\ s.step = saver[c].step /\ s.row = session
      /\ q.step = "loaded" /\ saver[c].step = "load" /\ jobs[c] = {} /\ ~(c > call)
  BY <1>1 DEF PostCallInv, CallsOK
<1> HIDE DEF q, s
<1>3. /\ ending' \in [Calls -> EndingRecord] /\ saver' \in [Calls -> SaverRecord]
      /\ ending'[c] = q /\ saver'[c] = s
      /\ \A d \in Calls : d # c => ending'[d] = ending[d] /\ saver'[d] = saver[d]
  BY <1>1, <1>2 DEF PostCallInv, CallsOK
<1>4. CallsOK'
  <2>1. \A d \in Calls :
          /\ d > call => ending'[d].step = "none"
          /\ ending'[d].step # "over" => jobs[d] = {} /\ saver'[d].step = "load"
    BY <1>2, <1>3 DEF PostCallInv, CallsOK
  <2> QED
    BY <1>1, <1>3, <2>1 DEF PostCallInv, CallsOK
<1>5. StoreOK => StoreOK'
  <2> SUFFICES ASSUME StoreOK PROVE StoreOK'
    OBVIOUS
  <2>1. ASSUME NEW d \in Calls PROVE SaverOK(d)'
    <3>1. CASE d = c
      BY <1>1, <1>2, <1>3, <3>1 DEF StoreOK, SaverOK, IsStale
    <3>2. CASE d # c
      BY <1>1, <1>3, <3>2 DEF StoreOK, SaverOK, GoesByRow, IsStale
    <3> QED
      BY <3>1, <3>2
  <2>2. ASSUME NEW l \in Listeners PROVE ReaderOK(l)'
    BY <1>1 DEF StoreOK, ReaderOK
  <2>3. session.local => session.call > 0 /\ recording = {session.call} /\ saver'[session.call].step = "over"
    <3>1. session.local => session.call \in Calls
      BY PostCallAssumption DEF StoreOK, PostCallInv, CallsOK, Session, Calls
    <3> QED
      BY <1>2, <1>3, <3>1 DEF StoreOK
  <2> QED
    BY <1>1, <2>1, <2>2, <2>3 DEF StoreOK
<1> QED
  BY <1>1, <1>4, <1>5 DEF PostCallInv

\* What it saves is its call's, in its call's row, or late.
LEMMA FinalizeSaveKeeps == ASSUME PostCallInv, NEW c \in Calls, FinalizeSave(c) PROVE PostCallInv'
<1>1. /\ ending' = [ending EXCEPT ![c].step = "saved"] /\ ending[c].step = "loaded"
      /\ UNCHANGED <<state, call, callbacks, verdicts, jobs, recording, cache, reader>>
  BY DEF FinalizeSave, Ending, noticeVars
<1>2. /\ ending' \in [Calls -> EndingRecord] /\ ending'[c].step = "saved"
      /\ \A d \in Calls : d # c => ending'[d] = ending[d]
  BY <1>1 DEF PostCallInv, CallsOK
<1>3. saver[c].step = "load" /\ jobs[c] = {} /\ ~(c > call) /\ c \in 0..MaxCalls
      /\ session \in Session /\ saver \in [Calls -> SaverRecord]
  BY <1>1, PostCallAssumption DEF PostCallInv, CallsOK, Calls
<1>4. CASE UNCHANGED <<session, saver, late>>
  <2>1. \A d \in Calls :
          /\ d > call => ending'[d].step = "none"
          /\ ending'[d].step # "over" => jobs[d] = {} /\ saver[d].step = "load"
    BY <1>2, <1>3 DEF PostCallInv, CallsOK
  <2>2. CallsOK'
    BY <1>1, <1>2, <1>4, <2>1 DEF PostCallInv, CallsOK
  <2>3. \A d \in Calls : GoesByRow(d)' => GoesByRow(d)
    BY <1>1, <1>2, <1>4 DEF GoesByRow
  <2>4. StoreOK => StoreOK'
    BY <1>1, <1>4, <2>3 DEF StoreOK, SaverOK, ReaderOK, IsStale
  <2> QED
    BY <1>4, <2>2, <2>4 DEF PostCallInv
<1>5. CASE SaveRow(c)
  <2>1. /\ session.call = saver[c].row.call
        /\ saver' = [saver EXCEPT ![c].row = session'] /\ late' = (late \/ IsStale(c))
    BY <1>5, Zenon DEF SaveRow
  <2>2. PICK texts \in SUBSET {c}, address \in {session.uri, IF saver[c].row.uri = 0 THEN c ELSE session.uri} :
          session' = [session EXCEPT !.lines = @ \cup texts, !.uri = address]
    BY <1>5, Zenon DEF SaveRow
  <2>3. /\ session' \in Session /\ session'.call = session.call /\ session'.local = session.local
        /\ session'.uri = address /\ address \in {session.uri, c} /\ session'.lines = session.lines \cup texts
    BY <1>3, <2>2 DEF Session
  <2>4. /\ saver' \in [Calls -> SaverRecord] /\ saver'[c].step = "load" /\ saver'[c].row = session'
        /\ \A d \in Calls : d # c => saver'[d] = saver[d]
    BY <1>3, <2>1, <2>3
  <2>5. \A d \in Calls :
          /\ d > call => ending'[d].step = "none"
          /\ ending'[d].step # "over" => jobs[d] = {} /\ saver'[d].step = "load"
    BY <1>2, <1>3, <2>4 DEF PostCallInv, CallsOK
  <2>6. CallsOK'
    BY <1>1, <1>2, <2>1, <2>3, <2>4, <2>5 DEF PostCallInv, CallsOK
  <2>7. StoreOK /\ ~late' => StoreOK'
    <3> SUFFICES ASSUME StoreOK, ~late' PROVE StoreOK'
      OBVIOUS
    <3>1. session.call = c /\ session'.uri \in {0, c} /\ session'.lines \subseteq {c}
      BY <2>1, <2>3 DEF IsStale, StoreOK
    <3>2. ASSUME NEW d \in Calls PROVE SaverOK(d)'
      <4>1. CASE d = c
        BY <2>3, <2>4, <3>1, <4>1 DEF SaverOK
      <4>2. CASE d # c
        BY <1>1, <2>3, <2>4, <3>1, <4>2 DEF StoreOK, SaverOK, IsStale
      <4> QED
        BY <4>1, <4>2
    <3>3. ASSUME NEW l \in Listeners PROVE ReaderOK(l)'
      BY <1>1 DEF StoreOK, ReaderOK
    <3>4. ~session'.local
      BY <1>3, <2>3, <3>1 DEF StoreOK
    <3> QED
      BY <2>3, <3>1, <3>2, <3>3, <3>4 DEF StoreOK
  <2> QED
    BY <2>1, <2>6, <2>7 DEF PostCallInv
<1> QED
  BY <1>4, <1>5 DEF FinalizeSave

\* The saver goes on with what the finalizer had.
LEMMA FinalizeStoreKeeps == ASSUME PostCallInv, NEW c \in Calls, FinalizeStore(c) PROVE PostCallInv'
<1>1. PICK result \in Outcomes :
        /\ state' = IF result = ending[c].was THEN state ELSE result
        /\ jobs' = [jobs EXCEPT ![c] = {"user"} \cup MailFor(result)]
  BY DEF FinalizeStore
<1>2. /\ Ended(c) /\ ending[c].step = "saved"
      /\ UNCHANGED <<call, session, callbacks, verdicts, saver, recording, cache, reader, late>>
  BY DEF FinalizeStore, audioVars
<1>3. /\ ending' \in [Calls -> EndingRecord] /\ ending'[c].step = "over"
      /\ \A d \in Calls : d # c => ending'[d] = ending[d]
  <2>1. [step |-> "over", was |-> "PENDING"] \in EndingRecord
    BY DEF States
  <2> QED
    BY <1>2, <2>1 DEF Ended, PostCallInv, CallsOK
<1>4. jobs' \in [Calls -> SUBSET Jobs] /\ \A d \in Calls : d # c => jobs'[d] = jobs[d]
  BY <1>1 DEF MailFor, Jobs, PostCallInv, CallsOK
<1>5. CallsOK'
  <2>1. \A d \in Calls :
          /\ d > call => ending'[d].step = "none"
          /\ ending'[d].step # "over" => jobs'[d] = {} /\ saver[d].step = "load"
    BY <1>2, <1>3, <1>4 DEF PostCallInv, CallsOK
  <2>2. state' \in States
    BY <1>1 DEF PostCallInv, CallsOK, States
  <2> QED
    BY <1>2, <1>3, <1>4, <2>1, <2>2 DEF PostCallInv, CallsOK
<1>6. StoreOK => StoreOK'
  <2>1. \A d \in Calls : GoesByRow(d)' => GoesByRow(d)
    BY <1>2, <1>3, <1>4 DEF GoesByRow
  <2> QED
    BY <1>2, <2>1 DEF StoreOK, SaverOK, ReaderOK, IsStale
<1> QED
  BY <1>2, <1>5, <1>6 DEF PostCallInv

LEMMA CallbackKeeps == ASSUME PostCallInv, NEW c \in Calls, RecordingCallback(c) PROVE PostCallInv'
<1>1. /\ UNCHANGED <<state, call, retrying, verdicts, ending, jobs, saver, recording, cache, reader>>
      /\ callbacks' \subseteq callbacks /\ c \in 0..MaxCalls /\ c \in Nat
      /\ late' = (late \/ (Stored /\ IsStale(c)))
      /\ session' = IF Stored THEN [session EXCEPT !.uri = c] ELSE session
  BY PostCallAssumption DEF RecordingCallback, noticeVars, audioVars, Calls
<1>2. /\ session' \in Session /\ session'.call = session.call /\ session'.local = session.local
      /\ session'.lines = session.lines
      /\ session'.uri = IF Stored THEN c ELSE session.uri
  BY <1>1 DEF PostCallInv, CallsOK, Session
<1>3. CallsOK'
  BY <1>1, <1>2 DEF PostCallInv, CallsOK
<1>4. StoreOK => late' \/ StoreOK'
  <2> SUFFICES ASSUME StoreOK, ~late' PROVE StoreOK'
    OBVIOUS
  <2>1. session'.uri \in {0, session'.call}
    BY <1>1, <1>2 DEF StoreOK, IsStale
  <2>2. ASSUME NEW d \in Calls PROVE SaverOK(d)'
    BY <1>1, <1>2 DEF StoreOK, SaverOK, GoesByRow, IsStale
  <2>3. ASSUME NEW l \in Listeners PROVE ReaderOK(l)'
    BY <1>1 DEF StoreOK, ReaderOK
  <2> QED
    BY <1>1, <1>2, <2>1, <2>2, <2>3 DEF StoreOK
<1> QED
  BY <1>1, <1>3, <1>4 DEF PostCallInv

\* A mail, a post or a query: only what is still to do changes.
LEMMA NoticesKeep ==
  ASSUME PostCallInv, NEW c \in Calls, LoadRecipient(c) \/ SendNotification(c) \/ SendTaskWebhook(c)
  PROVE  PostCallInv'
<1>1. UNCHANGED <<state, call, session, retrying, callbacks, verdicts, ending, saver, recording, cache, reader, late>>
  BY DEF LoadRecipient, SendNotification, SendTaskWebhook, callVars, audioVars
<1>2. jobs[c] # {} /\ \E rest \in SUBSET Jobs : jobs' = [jobs EXCEPT ![c] = rest]
  <2>1. jobs[c] \in SUBSET Jobs
    BY DEF PostCallInv, CallsOK
  <2> QED
    BY <2>1 DEF LoadRecipient, SendNotification, SendTaskWebhook, Jobs
<1>3. \A d \in Calls : jobs[d] = {} => jobs'[d] = {}
  BY <1>2 DEF PostCallInv, CallsOK
<1>4. CallsOK'
  BY <1>1, <1>2, <1>3 DEF PostCallInv, CallsOK
<1>5. StoreOK => StoreOK'
  BY <1>1, <1>3 DEF StoreOK, SaverOK, GoesByRow, ReaderOK, IsStale
<1> QED
  BY <1>1, <1>4, <1>5 DEF PostCallInv

\* A saver goes on or ends: it writes only in its turn, and names the file only
\* when that is written.
LEMMA SaverStep ==
  ASSUME PostCallInv, NEW c \in Calls, jobs[c] # {}, saver[c].step # "over",
         NEW s \in SaverRecord, NEW rest \in SUBSET Jobs,
         saver' = [saver EXCEPT ![c] = s], jobs' = [jobs EXCEPT ![c] = rest],
         UNCHANGED <<state, call, retrying, callbacks, verdicts, ending, cache, reader>>,
         session' \in {session, [session EXCEPT !.local = TRUE]},
         recording' \subseteq 0..MaxCalls, late' \in BOOLEAN, late => late',
         recording' # recording => late' \/ (~IsStale(c) /\ recording' \subseteq {c}),
         session' # session => late' \/ (session.call = c /\ recording' = {c} /\ s.step = "over"),
         ~late' /\ StoreOK => SaverOK(c)'
  PROVE  PostCallInv'
<1>1. /\ session' \in Session /\ session'.call = session.call /\ session'.uri = session.uri
      /\ session'.lines = session.lines /\ (session'.local => session.local \/ session' # session)
  BY DEF PostCallInv, CallsOK, Session
<1>2. \A d \in Calls : d # c => saver'[d] = saver[d] /\ jobs'[d] = jobs[d]
  BY DEF PostCallInv, CallsOK
<1>3. c \in Nat /\ c > 0 /\ call \in Nat /\ c <= call /\ saver'[c] = s
  BY StaleCalls DEF PostCallInv, CallsOK
<1>4. CallsOK'
  <2>1. ending[c].step = "over"
    BY DEF PostCallInv, CallsOK
  <2>2. \A d \in Calls : ending[d].step # "over" => jobs'[d] = {} /\ saver'[d].step = "load"
    BY <1>2, <2>1 DEF PostCallInv, CallsOK
  <2> QED
    BY <1>1, <2>2 DEF PostCallInv, CallsOK
<1>5. StoreOK /\ ~late' => StoreOK'
  <2> SUFFICES ASSUME StoreOK, ~late' PROVE StoreOK'
    OBVIOUS
  <2>1. ASSUME NEW d \in Calls PROVE SaverOK(d)'
    <3>1. CASE d # c
      <4>1. ~IsStale(d)' => ~IsStale(d) /\ recording' = recording
        BY <1>1, <3>1 DEF IsStale
      <4> QED
        BY <1>2, <3>1, <4>1 DEF StoreOK, SaverOK, GoesByRow
    <3> QED
      BY <3>1
  <2>2. ASSUME NEW l \in Listeners PROVE ReaderOK(l)'
    <3>1. recording' # recording => c = call /\ recording' \subseteq {call}
      BY StaleCalls DEF PostCallInv
    <3>2. reader[l].row.call \in Nat
      BY PostCallAssumption DEF PostCallInv, CallsOK, Session
    <3> QED
      BY <1>3, <3>1, <3>2 DEF StoreOK, ReaderOK
  <2>3. session'.local => session'.call > 0 /\ recording' = {session'.call} /\ saver'[session'.call].step = "over"
    <3>1. CASE session' # session
      BY <1>1, <1>3, <3>1
    <3>2. CASE session' = session
      <4> SUFFICES ASSUME session.local PROVE session.call > 0 /\ recording' = {session.call} /\ saver'[session.call].step = "over"
        BY <3>2
      <4>1. session.call > 0 /\ recording = {session.call} /\ saver[session.call].step = "over"
        BY DEF StoreOK
      <4>2. session.call # c /\ session.call \in Calls
        BY <4>1, PostCallAssumption DEF PostCallInv, CallsOK, Session, Calls
      <4> QED
        BY <1>2, <4>1, <4>2 DEF IsStale
    <3> QED
      BY <3>1, <3>2
  <2> QED
    BY <1>1, <2>1, <2>2, <2>3 DEF StoreOK
<1> QED
  BY <1>4, <1>5 DEF PostCallInv

\* What a saver is and does in every step.
LEMMA SaverFits ==
  ASSUME PostCallInv, NEW c \in Calls
  PROVE  /\ saver[c] \in SaverRecord
         /\ jobs[c] \in SUBSET Jobs /\ jobs = [jobs EXCEPT ![c] = jobs[c]] /\ jobs[c] \ {"save"} \in SUBSET Jobs
         /\ session \in Session /\ late \in BOOLEAN /\ recording \subseteq 0..MaxCalls
         /\ [step |-> "over", row |-> NoSession] \in SaverRecord
         /\ \A step \in {"open", "write", "store"} :
              [saver[c] EXCEPT !.step = step] = [step |-> step, row |-> saver[c].row]
BY NoSessionFits DEF PostCallInv, CallsOK, Jobs

LEMMA SaverEndKeeps ==
  ASSUME PostCallInv, NEW c \in Calls, NEW step \in {"load", "fetch", "write"}, Saves(c, step), SaverEnds(c),
         UNCHANGED <<callVars, recording, cache, reader>>, late' \in BOOLEAN, late => late'
  PROVE  PostCallInv'
<1>1. /\ saver' = [saver EXCEPT ![c] = [step |-> "over", row |-> NoSession]]
      /\ jobs' = [jobs EXCEPT ![c] = jobs[c] \ {"save"}]
      /\ jobs[c] # {} /\ saver[c].step # "over"
      /\ UNCHANGED <<state, call, session, retrying, callbacks, verdicts, ending>>
  BY DEF SaverEnds, Saves, callVars
<1>2. saver'[c] = [step |-> "over", row |-> NoSession] /\ ending[c].step = "over"
  BY <1>1 DEF PostCallInv, CallsOK
<1>3. SaverOK(c)'
  BY <1>1, <1>2 DEF SaverOK, GoesByRow
<1> QED
  BY <1>1, <1>3, SaverFits, SaverStep

LEMMA SaverLoadsKeeps == ASSUME PostCallInv, NEW c \in Calls, SaverLoads(c) PROVE PostCallInv'
<1>1. Saves(c, "load") /\ UNCHANGED <<callVars, recording, cache, reader, late>>
  BY DEF SaverLoads
<1>2. CASE SaverEnds(c)
  BY <1>1, <1>2, SaverFits, SaverEndKeeps
<1>3. CASE ~SaverEnds(c)
  <2> DEFINE row == FoundRow(c)
             s == [step |-> "fetch", row |-> row]
  <2>1. /\ row.uri # 0 /\ saver' = [saver EXCEPT ![c] = s] /\ UNCHANGED jobs
        /\ jobs[c] # {} /\ saver[c].step = "load"
        /\ UNCHANGED <<state, call, session, retrying, callbacks, verdicts, ending, recording, cache, reader, late>>
    BY <1>1, <1>3 DEF SaverLoads, Saves, callVars
  <2>2. row \in Session /\ s \in SaverRecord
    BY SaverFits DEF FoundRow
  <2>3. saver'[c] = s
    BY <2>1 DEF PostCallInv, CallsOK
  <2>4. StoreOK => SaverOK(c)'
    <3> SUFFICES ASSUME StoreOK, ~IsStale(c) PROVE row.call = c /\ row.uri = c
      BY <2>1, <2>3 DEF SaverOK, IsStale
    <3>1. saver[c].row.call = c /\ saver[c].row.uri \in {0, c}
      BY <2>1 DEF StoreOK, SaverOK, GoesByRow
    <3>2. row = saver[c].row
      BY <3>1 DEF FoundRow, IsStale
    <3> QED
      BY <2>1, <3>1, <3>2
  <2> HIDE DEF s
  <2> QED
    BY <2>1, <2>2, <2>4, SaverFits, SaverStep
<1> QED
  BY <1>2, <1>3

LEMMA SaverFetchesKeeps == ASSUME PostCallInv, NEW c \in Calls, SaverFetches(c) PROVE PostCallInv'
<1>1. Saves(c, "fetch") /\ UNCHANGED <<callVars, recording, cache, reader, late>>
  BY DEF SaverFetches
<1>2. CASE SaverEnds(c)
  BY <1>1, <1>2, SaverFits, SaverEndKeeps
<1>3. CASE SaverGoesOn(c, "open")
  <2> DEFINE s == [step |-> "open", row |-> saver[c].row]
  <2>1. /\ saver' = [saver EXCEPT ![c] = s] /\ UNCHANGED jobs
        /\ jobs[c] # {} /\ saver[c].step = "fetch"
        /\ UNCHANGED <<state, call, session, retrying, callbacks, verdicts, ending, recording, cache, reader, late>>
    BY <1>1, <1>3, SaverFits DEF SaverGoesOn, Saves, callVars
  <2>2. s \in SaverRecord /\ saver'[c] = s
    BY <2>1, SaverFits DEF PostCallInv, CallsOK
  <2>3. StoreOK => SaverOK(c)'
    BY <2>1, <2>2 DEF StoreOK, SaverOK, IsStale
  <2> HIDE DEF s
  <2> QED
    BY <2>1, <2>2, <2>3, SaverFits, SaverStep
<1> QED
  BY <1>2, <1>3 DEF SaverFetches

LEMMA SaverOpensKeeps == ASSUME PostCallInv, NEW c \in Calls, SaverOpens(c) PROVE PostCallInv'
<1> DEFINE s == [step |-> "write", row |-> saver[c].row]
<1>1. /\ saver' = [saver EXCEPT ![c] = s] /\ UNCHANGED jobs
      /\ jobs[c] # {} /\ saver[c].step = "open"
      /\ UNCHANGED <<state, call, session, retrying, callbacks, verdicts, ending, cache, reader>>
      /\ recording' = {} /\ late' = (late \/ IsStale(c))
  BY SaverFits DEF SaverOpens, SaverGoesOn, Saves, callVars
<1>2. s \in SaverRecord /\ saver'[c] = s
  BY <1>1, SaverFits DEF PostCallInv, CallsOK
<1>3. late' \in BOOLEAN /\ (~late' => ~IsStale(c))
  BY <1>1, SaverFits
<1>4. ~late' /\ StoreOK => SaverOK(c)'
  BY <1>1, <1>2, <1>3 DEF StoreOK, SaverOK, IsStale
<1> HIDE DEF s
<1> QED
  BY <1>1, <1>2, <1>3, <1>4, SaverFits, SaverStep

LEMMA SaverWritesKeeps == ASSUME PostCallInv, NEW c \in Calls, SaverWrites(c) PROVE PostCallInv'
<1>1. /\ Saves(c, "write") /\ UNCHANGED <<callVars, cache, reader>> /\ late' = (late \/ IsStale(c))
      /\ late' \in BOOLEAN /\ (~late' => ~IsStale(c))
  BY SaverFits DEF SaverWrites
<1>2. CASE UNCHANGED recording /\ SaverEnds(c)
  BY <1>1, <1>2, SaverEndKeeps
<1>3. CASE recording' = recording \cup {saver[c].row.uri} /\ SaverGoesOn(c, "store")
  <2> DEFINE s == [step |-> "store", row |-> saver[c].row]
  <2>1. /\ saver' = [saver EXCEPT ![c] = s] /\ UNCHANGED jobs
        /\ jobs[c] # {} /\ saver[c].step = "write"
        /\ UNCHANGED <<state, call, session, retrying, callbacks, verdicts, ending, cache, reader>>
    BY <1>1, <1>3, SaverFits DEF SaverGoesOn, Saves, callVars
  <2>2. s \in SaverRecord /\ saver'[c] = s
    BY <2>1, SaverFits DEF PostCallInv, CallsOK
  <2>3. recording' \subseteq 0..MaxCalls
    <3>1. saver[c].row \in Session
      BY SaverFits
    <3> QED
      BY <1>3, <3>1, SaverFits DEF Session
  <2>4. ~late' => recording' = {c}
    BY <1>1, <1>3, <2>1 DEF PostCallInv, StoreOK, SaverOK
  <2>5. ~late' /\ StoreOK => SaverOK(c)'
    BY <1>1, <2>1, <2>2, <2>4 DEF StoreOK, SaverOK, IsStale
  <2> HIDE DEF s
  <2> QED
    BY <1>1, <2>1, <2>2, <2>3, <2>4, <2>5, SaverFits, SaverStep
<1> QED
  BY <1>2, <1>3 DEF SaverWrites

LEMMA SaverStoresKeeps == ASSUME PostCallInv, NEW c \in Calls, SaverStores(c) PROVE PostCallInv'
<1> DEFINE s == [step |-> "over", row |-> NoSession]
<1>1. /\ saver' = [saver EXCEPT ![c] = s] /\ jobs' = [jobs EXCEPT ![c] = jobs[c] \ {"save"}]
      /\ jobs[c] # {} /\ saver[c].step = "store"
      /\ session' = IF session.call = saver[c].row.call THEN [session EXCEPT !.local = TRUE] ELSE session
      /\ UNCHANGED <<state, call, retrying, callbacks, verdicts, ending, recording, cache, reader, late>>
  BY DEF SaverStores, SaverEnds, Saves
<1>2. saver'[c] = s /\ s \in SaverRecord
      /\ s.step = "over" /\ ending[c].step = "over"
  BY <1>1, SaverFits DEF PostCallInv, CallsOK
<1>3. SaverOK(c)'
  BY <1>1, <1>2 DEF SaverOK, GoesByRow
<1>4. session' # session => late \/ (session.call = c /\ recording = {c})
  BY <1>1 DEF PostCallInv, StoreOK, SaverOK, IsStale
<1>5. session' \in {session, [session EXCEPT !.local = TRUE]} /\ recording' \subseteq 0..MaxCalls
      /\ late' \in BOOLEAN /\ jobs[c] \ {"save"} \in SUBSET Jobs /\ saver[c].step # "over"
  BY <1>1, SaverFits
<1>6. session' # session => late' \/ (session.call = c /\ recording' = {c} /\ s.step = "over")
  BY <1>1, <1>2, <1>4
<1> HIDE DEF s
<1> QED
  BY <1>1, <1>2, <1>3, <1>5, <1>6, SaverStep

\* A reader goes on with its row, or is served.
LEMMA ReaderStep ==
  ASSUME PostCallInv, NEW l \in Listeners,
         NEW s \in ReaderRecord,
         reader' = [reader EXCEPT ![l] = s], StoreOK => ReaderOK(l)',
         UNCHANGED <<callVars, noticeVars, saver, recording, late>>, cache'.audio \subseteq 0..MaxCalls
  PROVE  PostCallInv'
<1>1. UNCHANGED <<state, call, session, retrying, callbacks, verdicts, ending, jobs, saver, recording, late>>
  BY DEF callVars, noticeVars
<1>2. \A k \in Listeners : k # l => reader'[k] = reader[k]
  BY DEF PostCallInv, CallsOK
<1>3. CallsOK'
  BY <1>1 DEF PostCallInv, CallsOK
<1>4. StoreOK => StoreOK'
  BY <1>1, <1>2 DEF StoreOK, SaverOK, GoesByRow, ReaderOK, IsStale
<1> QED
  BY <1>1, <1>3, <1>4 DEF PostCallInv

\* Who is served keeps the number of the call it asked for.
LEMMA ServeKeeps ==
  ASSUME PostCallInv, NEW l \in Listeners, NEW audio \in SUBSET (0..MaxCalls), NEW via \in {"file", "twilio", "cache", "speech"},
         Serve(l, audio, via), StoreOK => via = "cache" \/ \A c \in audio : c >= reader[l].row.call,
         UNCHANGED <<callVars, noticeVars, saver, recording, late>>, cache'.audio \subseteq 0..MaxCalls
  PROVE  PostCallInv'
<1> DEFINE row == [NoSession EXCEPT !.call = reader[l].row.call]
           s == [step |-> "served", text |-> {}, audio |-> audio, via |-> via, row |-> row]
<1>1. reader' = [reader EXCEPT ![l] = s]
  BY DEF Serve
<1>2. row \in Session /\ row.call = reader[l].row.call
  <2>1. reader[l].row \in Session
    BY DEF PostCallInv, CallsOK
  <2> QED
    BY <2>1, NoSessionFits DEF Session
<1> HIDE DEF row
<1>3. s \in ReaderRecord
  BY <1>2
<1>4. reader'[l] = s
  BY <1>1 DEF PostCallInv, CallsOK
<1>5. StoreOK => ReaderOK(l)'
  BY <1>2, <1>4 DEF ReaderOK
<1> HIDE DEF s
<1> QED
  BY <1>1, <1>3, <1>5, ReaderStep

LEMMA ReaderFits ==
  ASSUME PostCallInv, NEW l \in Listeners
  PROVE  /\ reader[l] \in ReaderRecord
         /\ reader[l].row \in Session /\ reader[l].row.call \in 0..MaxCalls /\ reader[l].row.uri \in 0..MaxCalls
         /\ recording \subseteq 0..MaxCalls /\ cache.audio \subseteq 0..MaxCalls
<1>1. reader[l].row \in Session
  BY DEF PostCallInv, CallsOK
<1> QED
  BY <1>1 DEF PostCallInv, CallsOK, Session

LEMMA ReaderGoesOnKeeps ==
  ASSUME PostCallInv, NEW l \in Listeners, NEW step \in {"twilio", "demo", "speak"}, NEW text \in SUBSET Calls,
         reader[l].step \in {"local", "twilio", "demo"},
         \/ step # "speak" /\ reader' = [reader EXCEPT ![l].step = step]
         \/ /\ reader' = [reader EXCEPT ![l].step = step, ![l].text = text]
            /\ StoreOK => text \subseteq {reader[l].row.call},
         UNCHANGED <<callVars, noticeVars, saver, recording, late>>, cache'.audio \subseteq 0..MaxCalls
  PROVE  PostCallInv'
<1>1. PICK s \in ReaderRecord :
        /\ reader' = [reader EXCEPT ![l] = s] /\ s.step = step /\ s.row = reader[l].row
        /\ step = "speak" /\ StoreOK => s.text \subseteq {reader[l].row.call}
  <2>1. CASE step # "speak" /\ reader' = [reader EXCEPT ![l].step = step]
    <3> DEFINE s == [reader[l] EXCEPT !.step = step]
    <3>1. s \in ReaderRecord
          /\ s.step = step /\ s.row = reader[l].row
      BY ReaderFits
    <3> QED
      BY <2>1, <3>1
  <2>2. CASE /\ reader' = [reader EXCEPT ![l].step = step, ![l].text = text]
             /\ StoreOK => text \subseteq {reader[l].row.call}
    <3> DEFINE s == [[reader[l] EXCEPT !.step = step] EXCEPT !.text = text]
    <3>1. s \in ReaderRecord
          /\ s.step = step /\ s.row = reader[l].row /\ s.text = text
      BY ReaderFits
    <3>2. reader' = [reader EXCEPT ![l] = s]
      BY <2>2, ReaderFits DEF PostCallInv, CallsOK
    <3> QED
      BY <2>2, <3>1, <3>2
  <2> QED
    BY <2>1, <2>2
<1>2. reader'[l] = s
  BY <1>1 DEF PostCallInv, CallsOK
<1>3. StoreOK => ReaderOK(l)'
  <2>1. UNCHANGED <<call, recording>>
    BY DEF callVars
  <2> QED
    BY <1>1, <1>2, <2>1 DEF StoreOK, ReaderOK
<1> QED
  BY <1>1, <1>3, ReaderStep

\* What is cached is of some call.
LEMMA ServeCachedKeeps ==
  ASSUME PostCallInv, NEW l \in Listeners, ServeCached(l)
  PROVE  PostCallInv'
BY ServeKeeps, StaleCalls DEF ServeCached, PostCallInv, CallsOK

LEMMA ListenerKeeps ==
  ASSUME PostCallInv, NEW l \in Listeners, Listener(l)
  PROVE  PostCallInv'
<1>1. CASE RequestRecording(l)
  <2> DEFINE s == [NotAsking EXCEPT !.step = "local", !.row = session]
  <2>1. session \in Session /\ session.uri # 0 /\ reader' = [reader EXCEPT ![l] = s]
    BY <1>1 DEF RequestRecording, PostCallInv, CallsOK
  <2>2. s \in ReaderRecord
        /\ s.step = "local" /\ s.row = session
    BY <2>1 DEF NotAsking
  <2>3. reader'[l] = s
    BY <2>1 DEF PostCallInv, CallsOK
  <2> HIDE DEF s
  <2>4. StoreOK => ReaderOK(l)'
    <3>1. session.call \in Nat /\ call \in Nat /\ session.call <= call /\ UNCHANGED <<call, recording>>
      BY <1>1, PostCallAssumption DEF RequestRecording, callVars, PostCallInv, CallsOK
    <3> QED
      BY <2>1, <2>2, <2>3, <3>1 DEF StoreOK, ReaderOK
  <2> QED
    BY <1>1, <2>1, <2>2, <2>4, ReaderFits, ReaderStep DEF RequestRecording
<1>2. CASE ReadLocal(l)
  <2>1. CASE reader[l].row.local /\ Serve(l, recording, "file")
    BY <1>2, <2>1, ReaderFits, ServeKeeps DEF ReadLocal, StoreOK, ReaderOK
  <2>2. CASE reader' = [reader EXCEPT ![l].step = "twilio"]
    BY <1>2, <2>2, ReaderFits, ReaderGoesOnKeeps DEF ReadLocal
  <2> QED
    BY <1>2, <2>1, <2>2 DEF ReadLocal
<1>3. CASE FetchFromTwilio(l)
  <2>1. CASE Serve(l, {reader[l].row.uri}, "twilio")
    <3>1. StoreOK => \A c \in {reader[l].row.uri} : c >= reader[l].row.call
      BY <1>3, ReaderFits, PostCallAssumption DEF FetchFromTwilio, StoreOK, ReaderOK
    <3>2. {reader[l].row.uri} \in SUBSET (0..MaxCalls) /\ cache'.audio \subseteq 0..MaxCalls
          /\ UNCHANGED <<callVars, noticeVars, saver, recording, late>>
      BY <1>3, ReaderFits DEF FetchFromTwilio
    <3> QED
      BY <2>1, <3>1, <3>2, ServeKeeps
  <2>2. CASE reader' = [reader EXCEPT ![l].step = "demo"]
    BY <1>3, <2>2, ReaderFits, ReaderGoesOnKeeps DEF FetchFromTwilio
  <2> QED
    BY <1>3, <2>1, <2>2 DEF FetchFromTwilio
<1>4. CASE ServeCached(l)
  BY <1>4, ServeCachedKeeps
<1>5. CASE LoadTranscript(l)
  <2> DEFINE text == IF session.call = reader[l].row.call THEN session.lines ELSE {}
  <2>1. text \in SUBSET Calls
    BY DEF PostCallInv, CallsOK, Session
  <2>2. StoreOK => text \subseteq {reader[l].row.call}
    BY DEF StoreOK
  <2>3. /\ reader' = [reader EXCEPT ![l].step = "speak", ![l].text = text] /\ reader[l].step = "demo"
        /\ UNCHANGED <<callVars, noticeVars, saver, recording, cache, late>>
    BY <1>5 DEF LoadTranscript
  <2> HIDE DEF text
  <2> QED
    BY <2>1, <2>2, <2>3, ReaderFits, ReaderGoesOnKeeps
<1>6. CASE GenerateDemoAudio(l)
  <2>1. PICK audio \in DemoAudio(reader[l].text) :
          cache'.audio = audio /\ Serve(l, audio, "speech")
    BY <1>6 DEF GenerateDemoAudio
  <2>2. audio \subseteq reader[l].text /\ (StoreOK => audio \subseteq {reader[l].row.call})
    BY <1>6, <2>1 DEF GenerateDemoAudio, DemoAudio, StoreOK, ReaderOK
  <2>3. audio \in SUBSET (0..MaxCalls) /\ (StoreOK => \A c \in audio : c >= reader[l].row.call)
    BY <2>2, ReaderFits, PostCallAssumption DEF Calls
  <2> QED
    BY <1>6, <2>1, <2>3, ServeKeeps DEF GenerateDemoAudio
<1> QED
  BY <1>1, <1>2, <1>3, <1>4, <1>5, <1>6 DEF Listener

LEMMA PostCallStepInv == PostCallInv /\ [PostCallNext]_postCallVars => PostCallInv'
<1> SUFFICES ASSUME PostCallInv, [PostCallNext]_postCallVars PROVE PostCallInv'
  OBVIOUS
<1>1. ASSUME NEW c \in Calls, Processor(c) PROVE PostCallInv'
  BY <1>1, NoticesKeep, SaverLoadsKeeps, SaverFetchesKeeps, SaverOpensKeeps, SaverWritesKeeps, SaverStoresKeeps
     DEF Processor
<1>2. ASSUME NEW c \in Calls, CallGoes(c) PROVE PostCallInv'
  BY <1>2, VerdictKeeps, FinalizeLoadKeeps, FinalizeSaveKeeps, FinalizeStoreKeeps, CallbackKeeps DEF CallGoes
<1>3. CASE UNCHANGED postCallVars
  <2>1. UNCHANGED <<state, call, session, retrying, callbacks, verdicts, ending, jobs, saver, recording, cache, reader, late>>
    BY <1>3 DEF postCallVars, callVars, noticeVars, audioVars
  <2> QED
    BY <2>1 DEF PostCallInv, CallsOK, StoreOK, SaverOK, GoesByRow, ReaderOK, IsStale
<1> QED
  BY <1>1, <1>2, <1>3, PlaceCallKeeps, RetryKeeps, ListenerKeeps DEF PostCallNext

LEMMA PostCallInductive == PostCallSpec => []PostCallInv
BY PostCallInitInv, PostCallStepInv, PTL DEF PostCallSpec

\* A session with a local file finds exactly its own call's recording in it, for
\* any number of calls that share the file's name, until the callback, the
\* finalizer or the saver of an earlier call works on it late.
THEOREM SessionsHaveTheirFile == PostCallSpec => []LocalFileIsTheCalls
BY PostCallInductive, PTL DEF PostCallInv, StoreOK, LocalFileIsTheCalls

\* Nobody hears an earlier call than the one asked for, unless something of that
\* one has been stored late, or its demo audio is in the cache.
THEOREM ListenersHearTheirCall == PostCallSpec => []AudioIsOfItsCall
<1>1. PostCallInv => AudioIsOfItsCall
  BY DEF PostCallInv, StoreOK, ReaderOK, AudioIsOfItsCall
<1> QED
  BY <1>1, PostCallInductive, PTL

\* A session there is has a call, and what goes by a row's recording has one.
RecordingsOK ==
  /\ session.call = 0 => session = NoSession
  /\ retrying \in {"no", "lines", "row", "status"}
  /\ recording \subseteq Calls /\ cache \in [full : BOOLEAN, audio : SUBSET Calls]
  /\ notified \subseteq Calls /\ mailed \subseteq Calls
  /\ \A c \in Calls :
       /\ saver[c].row.call = 0 => saver[c].row = NoSession
       /\ saver[c].step \in {"fetch", "open", "write", "store"} => saver[c].row.uri # 0
  /\ \A l \in Listeners :
       /\ reader[l].audio \subseteq Calls
       /\ reader[l].step \notin {"idle", "served"} => reader[l].row.uri # 0 /\ reader[l].row.call # 0

LEMMA RecordingsInit == PostCallInit => RecordingsOK
BY DEF PostCallInit, RecordingsOK, NotAsking

LEMMA ReaderRecordings ==
  ASSUME CallsOK, RecordingsOK, NEW l \in Listeners, NEW q, reader' = [reader EXCEPT ![l] = q],
         q.audio \subseteq Calls, q.step \notin {"idle", "served"} => q.row.uri # 0 /\ q.row.call # 0,
         cache' \in [full : BOOLEAN, audio : SUBSET Calls], UNCHANGED <<session, retrying, recording, notified, mailed, saver>>
  PROVE  RecordingsOK'
<1>1. \A k \in Listeners : reader'[k] = IF k = l THEN q ELSE reader[k]
  BY DEF CallsOK
<1> QED
  BY <1>1 DEF RecordingsOK

LEMMA SaverRecordings ==
  ASSUME CallsOK, RecordingsOK, NEW c \in Calls, NEW q, saver' = [saver EXCEPT ![c] = q],
         q.step \in {"fetch", "open", "write", "store"} => q.row.uri # 0,
         q.row.call = 0 => q.row = NoSession,
         recording' \subseteq Calls, session'.call = 0 => session' = NoSession,
         UNCHANGED <<retrying, notified, mailed, cache, reader>>
  PROVE  RecordingsOK'
<1>1. \A d \in Calls : saver'[d] = IF d = c THEN q ELSE saver[d]
  BY DEF CallsOK
<1> QED
  BY <1>1 DEF RecordingsOK

LEMMA SessionsEqual ==
  ASSUME NEW s \in Session, NEW t \in Session,
         s.call = t.call, s.uri = t.uri, s.local = t.local, s.lines = t.lines
  PROVE  s = t
BY DEF Session

\* A row that is changed stays the row of its call, and no row stays none.
LEMMA CallRecordings ==
  ASSUME CallsOK, RecordingsOK,
         \/ PlaceCall \/ Retry
         \/ \E c \in Calls : CallGoes(c)
  PROVE  RecordingsOK'
<1> USE DEF noticeVars, audioVars, callVars
<1>1. CASE PlaceCall
  <2>1. call + 1 # 0 /\ session'.call = call + 1
    BY <1>1, StaleCalls DEF PlaceCall, NewSession, NoSession
  <2> QED
    BY <1>1, <2>1 DEF PlaceCall, RecordingsOK
<1>2. CASE AskRetry \/ DeleteSession \/ RetryRaises \/ Requeue
  BY <1>2 DEF AskRetry, DeleteSession, RetryRaises, Requeue, RecordingsOK, NoSession
<1>3. CASE DeleteLines
  <2>1. session'.call = session.call /\ (session = NoSession => session' = NoSession)
    <3>1. session \in Session /\ session' = [session EXCEPT !.lines = {}]
      BY <1>3 DEF DeleteLines, CallsOK
    <3>2. session' \in Session /\ session'.call = session.call /\ session'.uri = session.uri
          /\ session'.local = session.local /\ session'.lines = {}
      BY <3>1 DEF Session
    <3>3. session.lines = {} => session' = session
      BY <3>1, <3>2, SessionsEqual
    <3>4. NoSession.lines = {}
      BY DEF NoSession
    <3> QED
      BY <3>2, <3>3, <3>4
  <2> QED
    BY <1>3, <2>1 DEF DeleteLines, RecordingsOK
<1>4. ASSUME NEW c \in Calls, NotPickedUp(c) \/ MachineDetected(c) \/ FinalizeRaises(c) \/ FinalizeStore(c)
      PROVE  RecordingsOK'
  BY <1>4 DEF NotPickedUp, MachineDetected, FinalizeRaises, FinalizeStore, RecordingsOK
<1>5. ASSUME NEW c \in Calls, FinalizeLoad(c) PROVE RecordingsOK'
  <2> DEFINE q == [saver[c] EXCEPT !.row = session]
  <2>1. saver' = [saver EXCEPT ![c] = q] /\ q.row = session /\ q.step = "load"
    BY <1>5 DEF FinalizeLoad, CallsOK
  <2>2. /\ UNCHANGED <<session, retrying, recording, notified, mailed, cache, reader>>
        /\ recording \subseteq Calls /\ (session.call = 0 => session = NoSession)
    BY <1>5 DEF FinalizeLoad, RecordingsOK
  <2> HIDE DEF q
  <2> QED
    BY <2>1, <2>2, SaverRecordings
<1>6. ASSUME NEW c \in Calls, FinalizeSave(c) PROVE RecordingsOK'
  <2>0. ending[c].step = "loaded" /\ UNCHANGED <<retrying, recording, notified, mailed, cache, reader>>
    BY <1>6 DEF FinalizeSave
  <2>1. CASE UNCHANGED <<session, saver>>
    BY <2>0, <2>1 DEF RecordingsOK
  <2>2. CASE saver[c].row.call # 0 /\ SaveRow(c)
    <3> DEFINE q == [saver[c] EXCEPT !.row = session']
    <3>1. session.call # 0 /\ session \in Session /\ saver[c].step = "load" /\ saver[c] \in SaverRecord
      BY <2>0, <2>2 DEF SaveRow, CallsOK
    <3>2. \E texts, address : session' = [session EXCEPT !.lines = @ \cup texts, !.uri = address]
      BY <2>2, Zenon DEF SaveRow
    <3>3. session'.call = session.call
      BY <3>1, <3>2 DEF Session
    <3>4. saver' = [saver EXCEPT ![c] = q]
      BY <2>2 DEF SaveRow, CallsOK
    <3>5. q.row = session' /\ q.step = "load"
      BY <3>1
    <3> HIDE DEF q
    <3> QED
      BY <2>0, <3>1, <3>3, <3>4, <3>5, SaverRecordings DEF RecordingsOK
  <2> QED
    BY <1>6, <2>1, <2>2 DEF FinalizeSave
<1>7. ASSUME NEW c \in Calls, RecordingCallback(c) PROVE RecordingsOK'
  <2>1. session'.call = session.call /\ (session = NoSession => session' = NoSession)
    BY <1>7 DEF RecordingCallback, Stored, CallsOK, Session
  <2> QED
    BY <1>7, <2>1 DEF RecordingCallback, RecordingsOK
<1> QED
  BY <1>1, <1>2, <1>3, <1>4, <1>5, <1>6, <1>7 DEF Retry, CallGoes

LEMMA ProcessorRecordings ==
  ASSUME CallsOK, RecordingsOK, NEW c \in Calls, Processor(c)
  PROVE  RecordingsOK'
<1> USE DEF noticeVars, audioVars, callVars
<1>0. saver[c] \in SaverRecord /\ session \in Session
  BY DEF CallsOK
<1>1. CASE LoadRecipient(c)
  BY <1>1 DEF LoadRecipient, RecordingsOK
<1>2. CASE SendNotification(c) \/ SendTaskWebhook(c)
  BY <1>2 DEF SendNotification, SendTaskWebhook, SendEmail, RecordingsOK
<1>3. ASSUME SaverEnds(c) \/ \E step : SaverGoesOn(c, step) /\ saver[c].row.uri # 0,
             recording' \subseteq Calls, session'.call = 0 => session' = NoSession,
             UNCHANGED <<retrying, notified, mailed, cache, reader>>
      PROVE  RecordingsOK'
  <2>1. CASE SaverEnds(c)
    <3> DEFINE q == [step |-> "over", row |-> NoSession]
    <3>1. saver' = [saver EXCEPT ![c] = q] /\ q.step = "over" /\ q.row = NoSession
      BY <2>1 DEF SaverEnds
    <3> HIDE DEF q
    <3> QED
      BY <1>3, <3>1, SaverRecordings
  <2>2. ASSUME NEW step, SaverGoesOn(c, step), saver[c].row.uri # 0 PROVE RecordingsOK'
    <3> DEFINE q == [saver[c] EXCEPT !.step = step]
    <3>1. saver' = [saver EXCEPT ![c] = q] /\ q.row = saver[c].row
      BY <1>0, <2>2 DEF SaverGoesOn
    <3> HIDE DEF q
    <3> QED
      BY <1>3, <2>2, <3>1, SaverRecordings DEF RecordingsOK
  <2> QED
    BY <1>3, <2>1, <2>2
<1>4. CASE SaverLoads(c)
  <2>1. UNCHANGED <<session, recording, retrying, notified, mailed, cache, reader>>
    BY <1>4 DEF SaverLoads
  <2>2. CASE SaverEnds(c)
    BY <1>3, <2>1, <2>2 DEF RecordingsOK
  <2>3. CASE ~SaverEnds(c)
    <3> DEFINE q == [step |-> "fetch", row |-> FoundRow(c)]
    <3>1. saver' = [saver EXCEPT ![c] = q] /\ FoundRow(c).uri # 0
      BY <1>4, <2>3 DEF SaverLoads
    <3>2. FoundRow(c).call = 0 => FoundRow(c) = NoSession
      BY DEF FoundRow, RecordingsOK
    <3>3. q.row.uri # 0 /\ (q.row.call = 0 => q.row = NoSession)
      BY <3>1, <3>2
    <3> HIDE DEF q
    <3> QED
      BY <2>1, <3>1, <3>3, SaverRecordings DEF RecordingsOK
  <2> QED
    BY <2>2, <2>3
<1>5. CASE SaverFetches(c) \/ SaverOpens(c)
  BY <1>3, <1>5 DEF SaverFetches, SaverOpens, Saves, RecordingsOK
<1>6. CASE SaverWrites(c)
  <2>1. saver[c].row.uri \in Calls
    BY <1>0, <1>6, PostCallAssumption DEF SaverWrites, Saves, RecordingsOK, Session, Calls
  <2> QED
    BY <1>3, <1>6, <2>1 DEF SaverWrites, Saves, RecordingsOK
<1>7. CASE SaverStores(c)
  <2>1. session'.call = session.call /\ (session = NoSession => session' = NoSession)
    <3>1. saver[c].row.call # 0 /\ NoSession.call = 0
      BY <1>7 DEF SaverStores, Saves, RecordingsOK, NoSession
    <3> QED
      BY <1>0, <1>7, <3>1 DEF SaverStores, Session
  <2> QED
    BY <1>3, <1>7, <2>1 DEF SaverStores, Saves, RecordingsOK
<1> QED
  BY <1>1, <1>2, <1>4, <1>5, <1>6, <1>7 DEF Processor

LEMMA ListenerRecordings ==
  ASSUME CallsOK, RecordingsOK, NEW l \in Listeners, Listener(l)
  PROVE  RecordingsOK'
<1> USE DEF noticeVars, audioVars, callVars
<1>0. reader[l] \in ReaderRecord /\ session \in Session /\ NoSession.call = 0 /\ NoSession.uri = 0
  BY DEF CallsOK, NoSession
<1>1. UNCHANGED <<session, retrying, recording, notified, mailed, saver>>
  BY DEF Listener, RequestRecording, ReadLocal, FetchFromTwilio, ServeCached, LoadTranscript, GenerateDemoAudio
<1>2. ASSUME NEW audio \in SUBSET Calls, NEW via, Serve(l, audio, via),
             cache' \in [full : BOOLEAN, audio : SUBSET Calls]
      PROVE  RecordingsOK'
  <2> DEFINE q == [step |-> "served", text |-> {}, audio |-> audio, via |-> via,
                   row |-> [NoSession EXCEPT !.call = reader[l].row.call]]
  <2>1. reader' = [reader EXCEPT ![l] = q] /\ q.audio = audio /\ q.step = "served"
    BY <1>2 DEF Serve
  <2> HIDE DEF q
  <2> QED
    BY <1>1, <1>2, <2>1, ReaderRecordings
<1>3. ASSUME NEW q, reader' = [reader EXCEPT ![l] = q], q.audio \subseteq Calls,
             q.row.uri # 0 /\ q.row.call # 0, UNCHANGED cache
      PROVE  RecordingsOK'
  BY <1>1, <1>3, ReaderRecordings DEF RecordingsOK
<1>4. CASE RequestRecording(l)
  <2> DEFINE q == [NotAsking EXCEPT !.step = "local", !.row = session]
  <2>1. q.audio = {} /\ q.row = session
    BY DEF NotAsking
  <2>2. session.uri # 0 /\ session.call # 0 /\ reader' = [reader EXCEPT ![l] = q] /\ UNCHANGED cache
    BY <1>0, <1>4 DEF RequestRecording, RecordingsOK
  <2> HIDE DEF q
  <2> QED
    BY <1>3, <2>1, <2>2
<1>5. ASSUME NEW step, reader' = [reader EXCEPT ![l].step = step], UNCHANGED cache,
             reader[l].step \in {"local", "twilio"}
      PROVE  RecordingsOK'
  <2> DEFINE q == [reader[l] EXCEPT !.step = step]
  <2>1. reader' = [reader EXCEPT ![l] = q] /\ q.audio = reader[l].audio /\ q.row = reader[l].row
    BY <1>0, <1>5
  <2>2. reader[l].audio \subseteq Calls /\ reader[l].row.uri # 0 /\ reader[l].row.call # 0
    BY <1>5 DEF RecordingsOK
  <2> HIDE DEF q
  <2> QED
    BY <1>3, <1>5, <2>1, <2>2
<1>6. CASE ReadLocal(l)
  BY <1>2, <1>5, <1>6 DEF ReadLocal, RecordingsOK
<1>7. CASE FetchFromTwilio(l)
  <2>1. {reader[l].row.uri} \in SUBSET Calls
    <3>1. reader[l].row \in Session /\ reader[l].row.uri # 0
      BY <1>0, <1>7 DEF FetchFromTwilio, RecordingsOK
    <3> QED
      BY <3>1, PostCallAssumption DEF Session, Calls
  <2> QED
    BY <1>2, <1>5, <1>7, <2>1 DEF FetchFromTwilio, RecordingsOK
<1>8. CASE ServeCached(l)
  BY <1>2, <1>8 DEF ServeCached, RecordingsOK
<1>9. CASE LoadTranscript(l)
  <2> DEFINE text == IF session.call = reader[l].row.call THEN session.lines ELSE {}
             q == [reader[l] EXCEPT !.step = "speak", !.text = text]
  <2>1. reader' = [reader EXCEPT ![l] = q] /\ q.audio = reader[l].audio /\ q.row = reader[l].row /\ UNCHANGED cache
    BY <1>0, <1>9 DEF LoadTranscript
  <2>2. reader[l].audio \subseteq Calls /\ reader[l].row.uri # 0 /\ reader[l].row.call # 0
    BY <1>9 DEF LoadTranscript, RecordingsOK
  <2> HIDE DEF q
  <2> QED
    BY <1>3, <2>1, <2>2
<1>10. CASE GenerateDemoAudio(l)
  <2>1. reader[l].text \subseteq Calls
    BY <1>0
  <2>2. PICK audio \in SUBSET Calls : cache' = [full |-> TRUE, audio |-> audio] /\ Serve(l, audio, "speech")
    BY <1>10, <2>1 DEF GenerateDemoAudio, DemoAudio
  <2> QED
    BY <1>2, <2>2
<1> QED
  BY <1>4, <1>6, <1>7, <1>8, <1>9, <1>10 DEF Listener

LEMMA RecordingsStep == CallsOK /\ RecordingsOK /\ [PostCallNext]_postCallVars => RecordingsOK'
<1> SUFFICES ASSUME CallsOK, RecordingsOK, [PostCallNext]_postCallVars PROVE RecordingsOK'
  OBVIOUS
<1>1. CASE UNCHANGED postCallVars
  BY <1>1 DEF postCallVars, callVars, noticeVars, audioVars, RecordingsOK
<1> QED
  BY <1>1, CallRecordings, ProcessorRecordings, ListenerRecordings DEF PostCallNext

LEMMA PostCallFits == CallsOK /\ RecordingsOK => PostCallTypeOK
<1> SUFFICES ASSUME CallsOK, RecordingsOK PROVE PostCallTypeOK
  OBVIOUS
<1>1. \A l \in Listeners :
        reader[l] \in [step : {"idle", "local", "twilio", "demo", "speak", "served"}, row : Session,
                      text : SUBSET Calls, audio : SUBSET Calls, via : {"none", "file", "twilio", "cache", "speech"}]
  BY DEF CallsOK, RecordingsOK
<1>2. reader \in [Listeners -> [step : {"idle", "local", "twilio", "demo", "speak", "served"}, row : Session,
                   text : SUBSET Calls, audio : SUBSET Calls, via : {"none", "file", "twilio", "cache", "speech"}]]
  BY <1>1 DEF CallsOK
<1> QED
  BY <1>2 DEF CallsOK, RecordingsOK, PostCallTypeOK

-----------------------------------------------------------------------------
(* The services together *)

\* A behaviour of the services together is one of each of them: all but the one
\* that runs stutter, and a bound of the run only leaves steps out.
LEMMA PartsBegin ==
  ServicesInit => /\ part \in Parts /\ BridgeInit /\ MediaInit /\ DialogInit /\ LimiterInit /\ ListenersInit
                  /\ FilesInit /\ IntakeInit /\ AccountsInit /\ PostCallInit
BY DEF ServicesInit

LEMMA PartsStep ==
  [ServicesNext]_services =>
    /\ UNCHANGED part
    /\ [BridgeNext]_bridgeVars /\ [MediaNext]_mediaVars /\ [DialogNext]_dialogVars /\ [LimiterNext]_limiterVars
    /\ [ListenersNext]_listenerVars /\ [FilesNext]_fileVars
    /\ [IntakeNext]_intakeVars \/ (CatalogNext /\ UNCHANGED ordersVars)
    /\ [AccountsNext]_accountVars /\ [PostCallNext]_postCallVars
BY DEF services, ServicesNext, BridgePart, MediaPart, DialogPart, LimiterPart, ListenersPart, FilesPart,
       CatalogPart, IntakePart, AccountsPart, PostCallPart

\* The templates' part changes no order and no request for one.
LEMMA CatalogPartKeeps ==
  IntakeInv /\ HistoryOK /\ CatalogNext /\ UNCHANGED ordersVars => IntakeInv' /\ HistoryOK'
<1> SUFFICES ASSUME IntakeInv, HistoryOK, CatalogNext, UNCHANGED ordersVars PROVE IntakeInv' /\ HistoryOK'
  OBVIOUS
<1>1. UNCHANGED <<orders, ireq, promoting, moved, tangled, revived, promoted, grown>>
  BY DEF ordersVars, otherVars, historyVars
<1>2. CatalogInv' /\ ContestOK'
  BY CatalogStepInv, ContestStep DEF HistoryOK
<1> QED
  BY <1>1, <1>2, UnchangedKeeps DEF HistoryOK

\* What every service keeps while any of them runs.
ServicesInv ==
  /\ part \in Parts
  /\ SoundOK /\ WordsInv /\ DialogInv /\ LimiterInv /\ ListenersOK /\ FileInv
  /\ IntakeInv /\ HistoryOK /\ AccountsInv /\ TracesOK /\ PostCallInv /\ RecordingsOK

LEMMA ServicesInitInv == ServicesInit => ServicesInv
BY PartsBegin, SoundInit, WordsInitInv, DialogInitInv, LimiterInitInv, ListenersInitTypes, FileInitInv,
   IntakeInitInv, HistoryInit, AccountsInitInv, TracesInit, PostCallInitInv, RecordingsInit DEF ServicesInv

LEMMA ServicesStepInv == ServicesInv /\ [ServicesNext]_services => ServicesInv'
<1> SUFFICES ASSUME ServicesInv, [ServicesNext]_services PROVE ServicesInv'
  OBVIOUS
<1>1. part' \in Parts
  BY PartsStep DEF ServicesInv
<1>2. SoundOK' /\ WordsInv' /\ DialogInv' /\ LimiterInv' /\ ListenersOK' /\ FileInv'
  BY PartsStep, SoundStep, WordsStepInv, DialogStepInv, LimiterStepInv, ListenersStepTypes, FileStepInv
     DEF ServicesInv
<1>3. IntakeInv' /\ HistoryOK'
  BY PartsStep, IntakeStepInv, HistoryStep, CatalogPartKeeps DEF ServicesInv
<1>4. AccountsInv' /\ TracesOK'
  BY PartsStep, AccountsStepInv, TracesStep DEF ServicesInv
<1>5. PostCallInv' /\ RecordingsOK'
  BY PartsStep, PostCallStepInv, RecordingsStep DEF ServicesInv, PostCallInv
<1> QED
  BY <1>1, <1>2, <1>3, <1>4, <1>5 DEF ServicesInv

\* Everything that the services keep stays of its type, whichever runs, and a
\* behaviour of them together has the invariants that were proved of each alone.
THEOREM ServicesTypeCorrect == ServicesSpec => []ServicesTypeOK
<1>1. ServicesInv /\ BridgeInv => ServicesTypeOK
  <2> SUFFICES ASSUME ServicesInv, BridgeInv PROVE ServicesTypeOK
    OBVIOUS
  <2>1. part \in Parts /\ BridgeTypeOK /\ DialogTypeOK /\ LimiterTypeOK /\ ListenersTypeOK /\ FilesTypeOK
    BY DEF ServicesInv, BridgeInv, DialogInv, LimiterInv, ListenersOK, FileInv
  <2>2. MediaTypeOK
    BY MediaFits DEF ServicesInv
  <2>3. CatalogTypeOK /\ IntakeTypeOK
    BY IntakeFits DEF ServicesInv
  <2>4. AccountsTypeOK
    BY AccountsFit DEF ServicesInv
  <2>5. PostCallTypeOK
    BY PostCallFits DEF ServicesInv, PostCallInv
  <2> QED
    BY <2>1, <2>2, <2>3, <2>4, <2>5 DEF ServicesTypeOK
<1>2. ServicesInit => BridgeInit
  BY PartsBegin
<1>3. [ServicesNext]_services => [BridgeNext]_bridgeVars
  BY PartsStep
<1>4. ServicesSpec => []BridgeInv
  BY <1>2, <1>3, BridgeInvariant, PTL DEF ServicesSpec, BridgeSpec
<1> QED
  BY <1>1, <1>4, ServicesInitInv, ServicesStepInv, PTL DEF ServicesSpec

\* Each service that is specified without fairness is implemented by them together.
LEMMA TogetherAsAlone ==
  ServicesSpec => BridgeSpec /\ MediaSpec /\ LimiterSpec /\ FilesSpec /\ AccountsSpec
<1>1. [ServicesNext]_services =>
        /\ [BridgeNext]_bridgeVars /\ [MediaNext]_mediaVars /\ [LimiterNext]_limiterVars
        /\ [FilesNext]_fileVars /\ [AccountsNext]_accountVars
  BY PartsStep
<1>2. ServicesInit => BridgeInit /\ MediaInit /\ LimiterInit /\ FilesInit /\ AccountsInit
  BY PartsBegin
<1> QED
  BY <1>1, <1>2, PTL DEF ServicesSpec, BridgeSpec, MediaSpec, LimiterSpec, FilesSpec, AccountsSpec

\* While the templates run on their own there are no orders whose slots could be
\* missing from them.
NoOrders == part = "catalog" => DOMAIN orders = {} /\ ireq = [r \in IntakeRequests |-> Vacant]

RowsInv == RowInv /\ NoOrders

LEMMA RowsInitInv == ServicesInit => RowsInv
<1> SUFFICES ASSUME ServicesInit PROVE RowsInv
  OBVIOUS
<1>1. IntakeInit
  BY PartsBegin
<1>2. DOMAIN orders = {} /\ ireq = [r \in IntakeRequests |-> Vacant]
  BY <1>1 DEF IntakeInit
<1> QED
  BY <1>1, <1>2, RowInitInv DEF RowsInv, NoOrders

LEMMA RowsStepInv == IntakeInv /\ RowsInv /\ [ServicesNext]_services => RowsInv'
<1> SUFFICES ASSUME IntakeInv, RowsInv, [ServicesNext]_services PROVE RowsInv'
  OBVIOUS
<1>1. UNCHANGED part
  BY PartsStep
<1>2. CASE part = "catalog"
  <2>1. UNCHANGED <<orders, ireq>>
    BY <1>1, <1>2 DEF services, ServicesNext, BridgePart, MediaPart, DialogPart, LimiterPart, ListenersPart,
       FilesPart, CatalogPart, IntakePart, AccountsPart, PostCallPart, ordersVars, intakeVars
  <2>2. DOMAIN orders' = {} /\ ireq' = [r \in IntakeRequests |-> Vacant]
    BY <1>2, <2>1 DEF RowsInv, NoOrders
  <2>3. \A r \in IntakeRequests : ireq'[r] = Vacant
    BY <2>2
  <2>4. \A r \in IntakeRequests : FormInv(ireq[r])'
    BY <2>3 DEF FormInv, Vacant
  <2> QED
    BY <1>2, <2>2, <2>4 DEF RowsInv, NoOrders, RowInv, ScheduleAgrees, SlotsAreFilled
<1>3. CASE part # "catalog"
  <2>1. [IntakeNext]_intakeVars
    BY <1>3 DEF services, ServicesNext, BridgePart, MediaPart, DialogPart, LimiterPart, ListenersPart,
       FilesPart, CatalogPart, IntakePart, AccountsPart, PostCallPart
  <2> QED
    BY <1>1, <1>3, <2>1, RowStepInv DEF RowsInv, NoOrders
<1> QED
  BY <1>2, <1>3

\* The services in one process: whichever runs, each keeps what it promises, from
\* the one hang-up of a call to the one use of a reset link, for every value of
\* the constants.  The run services checks the same of a small instance.
THEOREM ServicesKeepPromises ==
  ServicesSpec =>
    /\ [](HangsUpOnce /\ HangupHasOutcome /\ HangupInHand /\ TranscriptIsFaithful)
    /\ [](DialogIsBounded /\ FutureHasReader /\ AnswersHeardOnce /\ MarkerEndsDialog /\ WorkerCallIsDeaf)
    /\ [](WindowRespected /\ MapIsBounded /\ EventsInOrder /\ RowsHaveFiles /\ DiskIsAccountedFor)
    /\ [](NamesAreUnique /\ QuotasHold /\ ScheduleAgrees /\ SlotsAreFilled /\ EmailsAreUnique)
    /\ [](LocalFileIsTheCalls /\ AudioIsOfItsCall)
    /\ DrainPlaysOut /\ LinksWorkOnce /\ NoCallIsOrphaned
<1>1. ServicesSpec => /\ [](HangsUpOnce /\ HangupHasOutcome /\ HangupInHand /\ TranscriptIsFaithful)
                     /\ DrainPlaysOut
  BY TogetherAsAlone, HangupOnce, HangupDecided, HangupAssured, TranscriptsAreFaithful, DrainsPlayOut, PTL
<1>2. ServicesSpec => /\ [](WindowRespected /\ MapIsBounded /\ RowsHaveFiles /\ DiskIsAccountedFor)
                     /\ []EmailsAreUnique /\ LinksWorkOnce /\ NoCallIsOrphaned
  BY TogetherAsAlone, LimitHolds, MapStaysSmall, ListedFilesExist, StrayFilesExplained, AddressesAreUnique,
     ResetLinksWorkOnce, DeactivationSparesCalls, PTL
<1>3. ServicesInit => ServicesInv /\ HeardInv /\ ListenersInv /\ RowsInv
  BY PartsBegin, ServicesInitInv, HeardInitInv, ListenersInitInv, RowsInitInv
<1>4. /\ ServicesInv /\ HeardInv /\ ListenersInv /\ RowsInv /\ [ServicesNext]_services
      => ServicesInv' /\ HeardInv' /\ ListenersInv' /\ RowsInv'
  <2>1. ServicesInv => DialogInv /\ IntakeInv
    BY DEF ServicesInv
  <2> QED
    BY <2>1, PartsStep, ServicesStepInv, HeardStepInv, ListenersStepInv, RowsStepInv
<1>5. DialogInv /\ HeardInv
        => DialogIsBounded /\ FutureHasReader /\ AnswersHeardOnce /\ MarkerEndsDialog /\ WorkerCallIsDeaf
  BY DialogAssumption DEF DialogInv, TurnsInv, DialogTypeOK, DialogIsBounded, FutureInv, MarkerInv, DeafInv,
     WorkerCallIsDeaf, HeardInv, AnswersHeardOnce, Said
<1>6. ListenersInv => EventsInOrder
  BY DEF ListenersInv, StreamOK, EventsInOrder
<1>7. IntakeInv /\ HistoryOK /\ RowsInv => NamesAreUnique /\ QuotasHold /\ ScheduleAgrees /\ SlotsAreFilled
  BY QuotasFollow DEF HistoryOK, CatalogInv, RowsInv, RowInv
<1>8. PostCallInv => LocalFileIsTheCalls /\ AudioIsOfItsCall
  BY DEF PostCallInv, StoreOK, ReaderOK, LocalFileIsTheCalls, AudioIsOfItsCall
<1>9. ServicesInv /\ HeardInv /\ ListenersInv /\ RowsInv
        => /\ DialogIsBounded /\ FutureHasReader /\ AnswersHeardOnce /\ MarkerEndsDialog /\ WorkerCallIsDeaf
           /\ EventsInOrder
           /\ NamesAreUnique /\ QuotasHold /\ ScheduleAgrees /\ SlotsAreFilled
           /\ LocalFileIsTheCalls /\ AudioIsOfItsCall
  BY <1>5, <1>6, <1>7, <1>8 DEF ServicesInv
<1> QED
  BY <1>1, <1>2, <1>3, <1>4, <1>9, PTL DEF ServicesSpec
=============================================================================
