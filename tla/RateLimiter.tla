----------------------------- MODULE RateLimiter ------------------------------
(***************************************************************************)
(* RateLimitMiddleware (core/rate_limit.py): a sliding window of request   *)
(* times per client address, kept in a dictionary of the process, swept    *)
(* every SWEEP_EVERY_REQUESTS requests and cut down to MAX_TRACKED_IPS     *)
(* entries.  dispatch does not await before it has decided, so a request   *)
(* is one step.                                                            *)
(*                                                                         *)
(* Every request has an instant of its own, so a window is a set of times; *)
(* the requests modelled are those the limit applies to: not /health and   *)
(* not /webhooks, with a positive limit.                                   *)
(***************************************************************************)
EXTENDS Integers, FiniteSets

CONSTANTS
  Clients,               \* client addresses
  MaxRequests,           \* RATE_LIMIT_PER_MINUTE
  Window,                \* self.window
  MAX_TRACKED_IPS,
  SWEEP_EVERY_REQUESTS,
  MaxTime                \* bound: the last instant a request may come at

ASSUME LimiterAssumption ==
  /\ MaxRequests \in Nat \ {0}
  /\ Window \in Nat \ {0}
  /\ MAX_TRACKED_IPS \in Nat
  /\ SWEEP_EVERY_REQUESTS \in Nat \ {0}
  /\ MaxTime \in Nat

VARIABLES
  now,         \* time.time() of the last request
  requests,    \* _requests: the clients tracked, with their request times
  sinceSweep,  \* _requests_since_sweep
  granted,     \* history: the times at which a client was let through
  evicted      \* history: clients whose live window the cap has thrown away

limiterVars == <<now, requests, sinceSweep, granted, evicted>>

Times == 0..MaxTime

LimiterTypeOK ==
  /\ now \in Times /\ sinceSweep \in 0..(SWEEP_EVERY_REQUESTS - 1)
  /\ DOMAIN requests \subseteq Clients
  /\ \A ip \in DOMAIN requests : requests[ip] \subseteq Times /\ requests[ip] # {}
  /\ granted \in [Clients -> SUBSET Times]
  /\ evicted \subseteq Clients

LimiterInit ==
  /\ now = 0 /\ sinceSweep = 0
  /\ requests = [ip \in {} |-> {}]
  /\ granted = [ip \in Clients |-> {}] /\ evicted = {}

\* Mutant: the cutoff forgets the window.
StaleAtOnce(window, t) == \A s \in window : s < t

\* timestamps[-1] < stale_cutoff, for a window in order of time.
Stale(window, t) == \A s \in window : s < t - Window

\* Every time of one window is before every time of the other: sorted_by_age
\* looks at the last of each, and those are instants of their own.
Older(v, w) == \E t \in w : \A s \in v : s < t

\* Mutant: the sweep only drops what is stale.
SurvivorsUncut(ips, reqs, t) == ips = {ip \in DOMAIN reqs : ~Stale(reqs[ip], t)}

\* _sweep_stale_entries: what stays tracked, after dropping the stale and, over
\* the cap, the oldest.
Survivors(ips, reqs, t) ==
  LET fresh == {ip \in DOMAIN reqs : ~Stale(reqs[ip], t)}
  IN /\ ips \subseteq fresh
     /\ IF Cardinality(fresh) > MAX_TRACKED_IPS
        THEN /\ Cardinality(ips) = MAX_TRACKED_IPS
             /\ \A keep \in ips, drop \in fresh \ ips : Older(reqs[drop], reqs[keep])
        ELSE ips = fresh

Swept == sinceSweep + 1 >= SWEEP_EVERY_REQUESTS

\* The window of a client among those tracked, as dispatch filters it.
Recent(window, t) == {s \in window : t - s < Window}
Tracked(reqs, ip) == IF ip \in DOMAIN reqs THEN reqs[ip] ELSE {}

\* dispatch, once the sweep has left the windows reqs.
Decide(ip, reqs, t) ==
  LET window == Recent(Tracked(reqs, ip), t)
      pass   == Cardinality(window) < MaxRequests
      entry  == IF pass THEN window \cup {t} ELSE window
  IN /\ requests' = [c \in DOMAIN reqs \cup {ip} |-> IF c = ip THEN entry ELSE reqs[c]]
     /\ granted' = IF pass THEN [granted EXCEPT ![ip] = @ \cup {t}] ELSE granted

Restricted(reqs, ips) == [ip \in ips |-> reqs[ip]]

RequestWithoutSweep(ip, t) ==
  /\ ~Swept
  /\ sinceSweep' = sinceSweep + 1
  /\ Decide(ip, requests, t)
  /\ UNCHANGED evicted

RequestWithSweep(ip, t) ==
  /\ Swept
  /\ sinceSweep' = 0
  /\ \E ips \in SUBSET DOMAIN requests :
       /\ Survivors(ips, requests, t)
       /\ evicted' = evicted \cup
            {c \in DOMAIN requests \ ips : ~Stale(requests[c], t)}
       /\ Decide(ip, Restricted(requests, ips), t)

\* A request comes at an instant after the last one.
Request(ip, t) ==
  /\ t > now
  /\ now' = t
  /\ RequestWithoutSweep(ip, t) \/ RequestWithSweep(ip, t)

LimiterNext == \E ip \in Clients, t \in Times : Request(ip, t)

LimiterSpec == LimiterInit /\ [][LimiterNext]_limiterVars

-----------------------------------------------------------------------------
(* Properties *)

\* A client is let through at most MaxRequests times in any window, across all
\* sweeps, unless the cap on tracked addresses has once forgotten its window
\* (rate_limit.py:59-72).
WindowRespected ==
  \A ip \in Clients \ evicted :
    Cardinality(Recent(granted[ip], now)) <= MaxRequests

\* The map can exceed MAX_TRACKED_IPS between two sweeps, by the addresses seen
\* since the last one and never by more (rate_limit.py:40-48, 59-62).
MapIsBounded ==
  Cardinality(DOMAIN requests) <= MAX_TRACKED_IPS + 1 + sinceSweep

=============================================================================
