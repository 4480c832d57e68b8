------------------------------- MODULE Accounts -------------------------------
(***************************************************************************)
(* Users and their administration: registration, reset links (auth/        *)
(* views.py), the profile and user endpoints (users/views.py, users/       *)
(* service.py) and deactivation (admin/views.py, admin/service.py).        *)
(*                                                                         *)
(* A request loads its caller (get_current_user), then what it is about,   *)
(* checks, and commits, with an await in between each.  Its session hands  *)
(* out one object per row: who is both caller and target is loaded once.   *)
(* A commit writes the changed columns only; user.email is not UNIQUE.     *)
(*                                                                         *)
(* Time is counted in the seconds that a token's iat has.  Left out: what  *)
(* passwords, phones and names are, logins and refreshes (they change      *)
(* nothing) and the expiry of links.                                       *)
(***************************************************************************)
EXTENDS Integers, FiniteSets

CONSTANTS
  UserIds, Emails,
  Founders,         \* the users there are at first: active administrators
  AccountRequests,
  MaxSecond         \* bound of the clock

ASSUME AccountsAssumption ==
  /\ "none" \notin UserIds \cup Emails
  /\ Founders \in [UserIds -> Emails \cup {"none"}]
  /\ \A u, v \in UserIds : Founders[u] = Founders[v] /\ Founders[u] # "none" => u = v
  /\ MaxSecond \in Nat

VARIABLES
  users,      \* the User rows
  gone,       \* ids of users that were deleted
  calls,      \* of each id: has the user no task, one IN_PROGRESS, or past ones?
  second,     \* the clock
  links,      \* reset links sent: user and iat
  spent,      \* history: links that have reset a password
  areq,       \* of each request: what it asks and where it is
  overtaken,  \* history: requests during which a row or a call has changed
  collided,   \* history: has an overtaken write met an address in use?
  blurred,    \* history: users whose password an overtaken request has set
  warned      \* users whose old address has been told of the new one

dataVars    == <<users, gone, calls, second, links>>
raceVars    == <<overtaken, collided, blurred>>
accountVars == <<dataVars, spent, areq, raceVars, warned>>

Seconds == 0..MaxSecond
Never   == -1  \* password_changed_at is NULL
Roles   == {"user", "admin"}
UserRow == [email : Emails, role : Roles, active : BOOLEAN, changed : Seconds \cup {Never}]
NoOne   == "none"
NoUserRow == [email |-> NoOne, role |-> "user", active |-> FALSE, changed |-> Never]
Link    == [user : UserIds, iat : Seconds]
NoLink  == [user |-> NoOne, iat |-> Never]

AdminOps   == {"create", "update", "role", "deactivate", "restore", "delete"}
OthersOnly == {"role", "deactivate", "delete"}
AccountOps == AdminOps \cup {"register", "profile", "password", "confirm"}
AccountSteps == {"idle", "load", "calls", "email", "commit", "answer"}
Resting == [op |-> "register", step |-> "idle", by |-> NoOne, on |-> NoOne, link |-> NoLink,
            email |-> NoOne, role |-> NoOne, was |-> NoUserRow, new |-> NoUserRow]

AccountsTypeOK ==
  /\ DOMAIN users \subseteq UserIds \ gone /\ gone \subseteq UserIds
  /\ \A u \in DOMAIN users : users[u] \in UserRow
  /\ calls \in [UserIds -> {"none", "live", "past"}]
  /\ second \in Seconds /\ links \subseteq Link /\ spent \subseteq links
  /\ \A r \in AccountRequests :
       /\ areq[r].op \in AccountOps /\ areq[r].step \in AccountSteps
       /\ areq[r].by \in UserIds \cup {NoOne} /\ areq[r].on \in UserIds \cup {NoOne}
       /\ areq[r].link \in links \cup {NoLink}
       /\ areq[r].email \in Emails \cup {NoOne} /\ areq[r].role \in Roles \cup {NoOne}
       /\ areq[r].was \in UserRow \cup {NoUserRow} /\ areq[r].new \in UserRow \cup {NoUserRow}
  /\ overtaken \subseteq AccountRequests /\ collided \in BOOLEAN
  /\ blurred \subseteq UserIds /\ warned \subseteq UserIds

AccountsInit ==
  /\ users = [u \in {v \in UserIds : Founders[v] # NoOne} |->
       [email |-> Founders[u], role |-> "admin", active |-> TRUE, changed |-> Never]]
  /\ gone = {} /\ calls = [u \in UserIds |-> "none"]
  /\ second = 0 /\ links = {} /\ spent = {}
  /\ areq = [r \in AccountRequests |-> Resting]
  /\ overtaken = {} /\ collided = FALSE /\ blurred = {} /\ warned = {}

Holders(email) == {u \in DOMAIN users : users[u].email = email}
Finish(r)      == areq' = [areq EXCEPT ![r] = Resting]
GoOn(r, step)  == areq' = [areq EXCEPT ![r].step = step]
AtStep(r, step) == areq[r].step = step

Begin(r, request) ==
  /\ AtStep(r, "idle")
  /\ areq' = [areq EXCEPT ![r] = request]
  /\ overtaken' = overtaken \ {r}
  /\ UNCHANGED <<dataVars, spent, collided, blurred, warned>>

-----------------------------------------------------------------------------
(* Requests *)

\* register asks for no caller; its first query is the one for the address.
Register(r) ==
  \E email \in Emails :
    Begin(r, [Resting EXCEPT !.step = "email", !.email = email])

\* get_current_user, and get_current_admin_user for what is an administrator's.
MayCall(u, op) ==
  /\ users[u].active
  /\ op \in AdminOps => users[u].role = "admin"

Authorised(r, op, u, on, email, role) ==
  /\ MayCall(u, op)
  /\ op \in OthersOnly => on # u
  /\ Begin(r, [Resting EXCEPT !.op = op, !.by = u, !.on = on, !.email = email, !.role = role,
       !.step = IF op = "create" THEN "email" ELSE "load",
       !.was = IF on = u THEN users[u] ELSE NoUserRow])

Call(r) ==
  \E u \in DOMAIN users :
    \/ \E email \in Emails : Authorised(r, "create", u, NoOne, email, NoOne)
    \/ \E email \in Emails \cup {NoOne} : Authorised(r, "profile", u, u, email, NoOne)
    \/ Authorised(r, "password", u, u, NoOne, NoOne)
    \/ \E on \in UserIds \ gone :
         \/ \E email \in Emails \cup {NoOne}, role \in Roles \cup {NoOne} :
              Authorised(r, "update", u, on, email, role)
         \/ \E role \in Roles : Authorised(r, "role", u, on, NoOne, role)
         \/ \E op \in {"deactivate", "restore", "delete"} : Authorised(r, op, u, on, NoOne, NoOne)

\* reset_password: the link is sent whatever the state of the account.
AskForLink ==
  /\ \E u \in DOMAIN users : links' = links \cup {[user |-> u, iat |-> second]}
  /\ UNCHANGED <<users, gone, calls, second, spent, areq, raceVars, warned>>

Confirm(r) ==
  \E k \in links :
    Begin(r, [Resting EXCEPT !.op = "confirm", !.step = "load", !.on = k.user, !.link = k])

\* The row the request goes on with, once its query has been answered.
Row(r) == IF areq[r].by = areq[r].on THEN areq[r].was ELSE users[areq[r].on]

\* Mutant: a link of the second in which the password changed still works.
LinkIsFreshOrEqual(link, row) == row.changed # Never => link.iat >= row.changed

LinkIsFresh(link, row) == row.changed # Never => link.iat > row.changed

\* What is tested of the row; a vanished one is not found.
Allowed(r) ==
  /\ areq[r].on \in DOMAIN users
  /\ areq[r].op = "confirm" => LinkIsFresh(areq[r].link, Row(r))
  /\ areq[r].op = "restore" => ~Row(r).active

\* What the request makes of it; a new password is stamped here, before the commit.
Wish(r) ==
  LET q == areq[r]
  IN [email   |-> IF q.email = NoOne THEN Row(r).email ELSE q.email,
      role    |-> IF q.role = NoOne THEN Row(r).role ELSE q.role,
      active  |-> CASE q.op = "deactivate" -> FALSE
                    [] q.op = "restore" -> TRUE
                    [] OTHER -> Row(r).active,
      changed |-> IF q.op \in {"password", "confirm"} THEN second ELSE Row(r).changed]

StepAfterLoad(r) ==
  CASE areq[r].op = "deactivate" -> "calls"
    [] areq[r].email # NoOne -> "email"
    [] OTHER -> "commit"

LoadUser(r) ==
  /\ AtStep(r, "load")
  /\ IF Allowed(r)
     THEN areq' = [areq EXCEPT ![r].was = Row(r), ![r].new = Wish(r), ![r].step = StepAfterLoad(r)]
     ELSE Finish(r)
  /\ UNCHANGED <<dataVars, spent, raceVars, warned>>

\* Mutant: tasks in progress do not matter.
CheckCallsNot(r) ==
  /\ AtStep(r, "calls")
  /\ GoOn(r, "commit")
  /\ UNCHANGED <<dataVars, spent, raceVars, warned>>

\* delete_user's query for tasks in progress.
CheckCalls(r) ==
  /\ AtStep(r, "calls")
  /\ IF calls[areq[r].on] = "live" THEN Finish(r) ELSE GoOn(r, "commit")
  /\ UNCHANGED <<dataVars, spent, raceVars, warned>>

\* Mutant: the address is not looked up.
EmailIsFreeAnyway(r) ==
  /\ AtStep(r, "email")
  /\ GoOn(r, "commit")
  /\ UNCHANGED <<dataVars, spent, raceVars, warned>>

\* get_by_email; of several holders first() is any.
EmailIsFree(r) ==
  /\ AtStep(r, "email")
  /\ Holders(areq[r].email) = {} \/ areq[r].on \in Holders(areq[r].email)
  /\ GoOn(r, "commit")
  /\ UNCHANGED <<dataVars, spent, raceVars, warned>>

EmailIsTaken(r) ==
  /\ AtStep(r, "email")
  /\ Holders(areq[r].email) \ {areq[r].on} # {}
  /\ Finish(r)
  /\ UNCHANGED <<dataVars, spent, raceVars, warned>>

-----------------------------------------------------------------------------
(* Commits *)

\* Everyone else's request has been overtaken by this change.
Overtakes(rs) == overtaken' = {q \in rs : ~AtStep(q, "idle")} \cup overtaken

Stores(r, u, row) ==
  /\ users' = [v \in DOMAIN users \cup {u} |-> IF v = u THEN row ELSE users[v]]
  /\ collided' = (collided \/ (r \in overtaken /\ Holders(row.email) \ {u} # {}))
  /\ Overtakes(AccountRequests \ {r})
  /\ UNCHANGED <<gone, calls, second, links, warned>>

InsertUser(r) ==
  /\ AtStep(r, "commit") /\ areq[r].op \in {"register", "create"}
  /\ UserIds \ (DOMAIN users \cup gone) # {}
  /\ LET u == CHOOSE v \in UserIds \ (DOMAIN users \cup gone) : TRUE  \* a fresh id
     IN Stores(r, u, [email |-> areq[r].email, role |-> "user", active |-> TRUE, changed |-> Never])
  /\ Finish(r)
  /\ UNCHANGED <<spent, blurred>>

\* The columns the request has changed, over what is there now.
RowAfter(now, was, new) == [c \in DOMAIN now |-> IF new[c] # was[c] THEN new[c] ELSE now[c]]

UpdateUser(r) ==
  /\ AtStep(r, "commit") /\ areq[r].op \notin {"register", "create", "delete"}
  /\ areq[r].on \in DOMAIN users
  /\ Stores(r, areq[r].on, RowAfter(users[areq[r].on], areq[r].was, areq[r].new))
  /\ spent' = IF areq[r].op = "confirm" THEN spent \cup {areq[r].link} ELSE spent
  /\ blurred' = IF areq[r].op \in {"password", "confirm"} /\ r \in overtaken
                THEN blurred \cup {areq[r].on} ELSE blurred
  /\ IF areq[r].op = "profile" /\ areq[r].email # NoOne THEN GoOn(r, "answer") ELSE Finish(r)

\* Tasks have no ON DELETE: a user who has any is not deleted.
EraseUser(r) ==
  /\ AtStep(r, "commit") /\ areq[r].op = "delete"
  /\ areq[r].on \in DOMAIN users /\ calls[areq[r].on] = "none"
  /\ users' = [v \in DOMAIN users \ {areq[r].on} |-> users[v]]
  /\ gone' = gone \cup {areq[r].on}
  /\ Overtakes(AccountRequests \ {r})
  /\ Finish(r)
  /\ UNCHANGED <<calls, second, links, spent, collided, blurred, warned>>

\* The row has vanished or is referred to: the commit raises.
CommitFails(r) ==
  /\ AtStep(r, "commit") /\ areq[r].op \notin {"register", "create"}
  /\ areq[r].on \notin DOMAIN users \/ (areq[r].op = "delete" /\ calls[areq[r].on] # "none")
  /\ Finish(r)
  /\ UNCHANGED <<dataVars, spent, raceVars, warned>>

\* update_profile_view compares the address with that of current_user, which is
\* the object that the service has changed and the repository refreshed.
RequiresReauth(r) == areq[r].email # users[areq[r].on].email

AnswerProfile(r) ==
  /\ AtStep(r, "answer")
  /\ warned' = IF areq[r].on \in DOMAIN users /\ RequiresReauth(r)
               THEN warned \cup {areq[r].on} ELSE warned
  /\ Finish(r)
  /\ UNCHANGED <<dataVars, spent, raceVars>>

-----------------------------------------------------------------------------
(* The rest of the system *)

\* An executor claims and ends tasks without a look at is_active.
CallBegins(u) ==
  /\ calls[u] # "live"
  /\ calls' = [calls EXCEPT ![u] = "live"]
  /\ Overtakes({q \in AccountRequests : areq[q].on = u})

CallEnds(u) ==
  /\ calls[u] = "live"
  /\ calls' = [calls EXCEPT ![u] = "past"]
  /\ UNCHANGED overtaken

Executors ==
  /\ \E u \in DOMAIN users : CallBegins(u) \/ CallEnds(u)
  /\ UNCHANGED <<users, gone, second, links, spent, areq, collided, blurred, warned>>

Tick ==
  /\ second < MaxSecond
  /\ second' = second + 1
  /\ UNCHANGED <<users, gone, calls, links, spent, areq, raceVars, warned>>

AccountStep(r) ==
  \/ Register(r) \/ Call(r) \/ Confirm(r)
  \/ LoadUser(r) \/ CheckCalls(r) \/ EmailIsFree(r) \/ EmailIsTaken(r)
  \/ InsertUser(r) \/ UpdateUser(r) \/ EraseUser(r) \/ CommitFails(r) \/ AnswerProfile(r)

AccountsNext == (\E r \in AccountRequests : AccountStep(r)) \/ AskForLink \/ Executors \/ Tick

AccountsSpec == AccountsInit /\ [][AccountsNext]_accountVars

-----------------------------------------------------------------------------
(* Properties *)

\* Two users have one address only once an overtaken write, of a request during
\* which another one has committed, has met one (auth/views.py:37-43,
\* users/service.py:71-82, 91-94, 131-134).
EmailsAreUnique ==
  collided \/ \A u, v \in DOMAIN users : users[u].email = users[v].email => u = v

\* A reset link resets the password once; to use it again takes a request during
\* which another one has committed: itself, or one whose older stamp has replaced
\* a newer one (auth/views.py:98-109).
LinksWorkOnce ==
  [][\A r \in AccountRequests :
       AtStep(r, "commit") /\ ~AtStep(r, "commit")' /\ areq[r].op = "confirm" /\ areq[r].link \in spent
         => r \in overtaken \/ areq[r].on \in blurred]_accountVars

\* Deactivating a user never takes one whose call is live, unless since some
\* request to deactivate that user began a call of theirs has begun, or another
\* request has committed (admin/service.py:207-230).
NoCallIsOrphaned ==
  [][\A u \in DOMAIN users \cap DOMAIN users' :
       users[u].active /\ ~users'[u].active /\ calls[u] = "live"
         => \E r \in overtaken : areq[r].op = "deactivate" /\ areq[r].on = u]_accountVars

\* Who changes their address is told to log in again, and the old address is told
\* of the new one (tests/integration/test_users.py:285-300).
EmailChangeIsAnnounced ==
  [][\A r \in AccountRequests :
       AtStep(r, "answer") /\ ~AtStep(r, "answer")' /\ areq[r].email # areq[r].was.email
         => areq[r].on \in warned']_accountVars

=============================================================================
