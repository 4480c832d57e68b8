------------------------------ MODULE CallLedger ------------------------------
(***************************************************************************)
(* What the system promises about outbound calls, whatever races, crashes  *)
(* and retries happen.  Per task there is a ledger of attempts.  An        *)
(* attempt is opened only while no other one stands, and only striking the *)
(* standing attempt (a user's retry) makes room for the next one.  For an  *)
(* attempt at most MAX_CALL_RETRIES calls are placed, one after the other, *)
(* and no further one once Twilio has confirmed one.  It confirms every    *)
(* call it places unless its answer is lost, and then the callee may be    *)
(* called twice in an attempt.                                             *)
(***************************************************************************)
EXTENDS Naturals

CONSTANTS Tasks, MaxAttempts, MAX_CALL_RETRIES, RepliesMayBeLost

VARIABLES
  standing,  \* standing[t]:  0, or the attempt that stands
  opened,    \* opened[t]:    attempts opened so far
  placed,    \* placed[t]:    the calls placed
  confirmed  \* confirmed[t]: those Twilio has confirmed

ledgerVars == <<standing, opened, placed, confirmed>>

\* An attempt and the number of a try within it.
AllCalls == (1..MaxAttempts) \X (1..MAX_CALL_RETRIES)

LedgerInit ==
  /\ standing  = [t \in Tasks |-> 0]
  /\ opened    = [t \in Tasks |-> 0]
  /\ placed    = [t \in Tasks |-> {}]
  /\ confirmed = [t \in Tasks |-> {}]

\* Attempts are numbered in the order they are opened.
OpenAttempt(t) ==
  /\ standing[t] = 0
  /\ opened[t] < MaxAttempts
  /\ opened'   = [opened EXCEPT ![t] = @ + 1]
  /\ standing' = [standing EXCEPT ![t] = opened[t] + 1]
  /\ UNCHANGED <<placed, confirmed>>

StrikeAttempt(t) ==
  /\ standing[t] # 0
  /\ standing' = [standing EXCEPT ![t] = 0]
  /\ UNCHANGED <<opened, placed, confirmed>>

\* The attempt may have been struck in the meantime, but it was opened.
PlaceCall(t, c) ==
  /\ c[1] \in 1..opened[t]
  /\ \A d \in placed[t] : d[1] = c[1] => d[2] < c[2]
  /\ \A d \in confirmed[t] : d[1] # c[1]
  /\ placed' = [placed EXCEPT ![t] = @ \cup {c}]
  /\ \/ confirmed' = [confirmed EXCEPT ![t] = @ \cup {c}]
     \/ RepliesMayBeLost /\ UNCHANGED confirmed
  /\ UNCHANGED <<standing, opened>>

LedgerNext ==
  \E t \in Tasks :
    \/ OpenAttempt(t)
    \/ StrikeAttempt(t)
    \/ \E c \in AllCalls : PlaceCall(t, c)

LedgerSpec == LedgerInit /\ [][LedgerNext]_ledgerVars
=============================================================================
