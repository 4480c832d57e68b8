---------------------------- MODULE AccountProofs -----------------------------
(***************************************************************************)
(* Users and their administration: addresses, reset links and deactivation *)
(* are kept by checks that other requests can overtake.  For any users,    *)
(* addresses and number of requests, nothing but being overtaken leads to  *)
(* a shared address, a link used twice or a call whose user is inactive.   *)
(***************************************************************************)
EXTENDS Accounts, TLAPS

(* What the inductive invariant says *)

AccountRequest ==
  [op : AccountOps, step : AccountSteps, by : UserIds \cup {NoOne}, on : UserIds \cup {NoOne},
   link : Link \cup {NoLink}, email : Emails \cup {NoOne}, role : Roles \cup {NoOne},
   was : UserRow \cup {NoUserRow}, new : UserRow \cup {NoUserRow}]

\* The rows, and times that do not lie ahead of the clock.
UsersOK ==
  /\ DOMAIN users \subseteq UserIds \ gone
  /\ \A u \in DOMAIN users : users[u] \in UserRow /\ users[u].changed <= second
  /\ calls \in [UserIds -> {"none", "live", "past"}]
  /\ second \in Seconds
  /\ spent \subseteq links
  /\ \A k \in links : k \in Link /\ k.iat <= second /\ k.user \in DOMAIN users \cup gone
  /\ areq \in [AccountRequests -> AccountRequest]
  /\ collided \in BOOLEAN

Creates(q) == q.op \in {"register", "create"}

\* The request has loaded the row it is about.
HasRow(q) == ~Creates(q) /\ q.step \in {"calls", "email", "commit"}

\* What a request has loaded, and what it makes of it.
RequestOK(q) ==
  /\ q.step # "idle" =>
       /\ Creates(q) => q.on = NoOne /\ q.email # NoOne /\ q.step \in {"email", "commit"}
       /\ ~Creates(q) => q.on \in UserIds
       /\ q.op = "deactivate" => q.email = NoOne
       /\ q.op = "confirm" => q.by = NoOne /\ q.link \in links /\ q.link.user = q.on
  /\ q.step = "load" /\ q.by = q.on => q.was \in UserRow /\ q.was.changed <= second
  /\ q.step = "calls" => q.op = "deactivate"
  /\ q.step = "email" => q.op # "deactivate"
  /\ HasRow(q) =>
       /\ q.was \in UserRow /\ q.new \in UserRow
       /\ q.new.email = IF q.email = NoOne THEN q.was.email ELSE q.email
       /\ q.new.active = CASE q.op = "deactivate" -> FALSE
                           [] q.op = "restore" -> TRUE
                           [] OTHER -> q.was.active
       /\ q.op \in {"password", "confirm"} => q.was.changed <= q.new.changed /\ q.new.changed <= second
       /\ q.op \notin {"password", "confirm"} => q.new.changed = q.was.changed
       /\ q.op = "confirm" => LinkIsFresh(q.link, q.was) /\ q.link.iat <= q.new.changed

\* What a request that nothing has overtaken has read still holds.
LoadedOK(q) ==
  /\ HasRow(q) \/ (q.step = "load" /\ q.by = q.on) => q.on \in DOMAIN users /\ q.was = users[q.on]
  /\ q.step = "commit" /\ q.email # NoOne => collided \/ Holders(q.email) \subseteq {q.on}
  /\ q.step = "commit" /\ q.op = "deactivate" => calls[q.on] # "live"

\* No link that has been used is newer than its user's password.
SpentOK == \A k \in spent : k.user \in DOMAIN users \ blurred => k.iat <= users[k.user].changed

AccountsInv ==
  /\ UsersOK
  /\ \A r \in AccountRequests : RequestOK(areq[r])
  /\ \A r \in AccountRequests \ overtaken : LoadedOK(areq[r])
  /\ SpentOK
  /\ EmailsAreUnique

LEMMA RestingFits == Resting \in AccountRequest /\ RequestOK(Resting) /\ LoadedOK(Resting)
BY DEF Resting, AccountRequest, AccountOps, AdminOps, AccountSteps, NoLink, NoUserRow, NoOne,
       RequestOK, LoadedOK, HasRow

LEMMA AccountsInitInv == AccountsInit => AccountsInv
<1> SUFFICES ASSUME AccountsInit PROVE AccountsInv
  OBVIOUS
<1>1. \A u \in DOMAIN users : u \in UserIds /\ Founders[u] \in Emails /\ users[u].email = Founders[u]
                              /\ users[u] \in UserRow /\ users[u].changed = Never
  BY AccountsAssumption DEF AccountsInit, UserRow, Roles, NoOne, Never
<1>2. second = 0 /\ 0 \in Seconds /\ Never <= 0
  BY AccountsAssumption DEF AccountsInit, Seconds, Never
<1>3. UsersOK
  BY <1>1, <1>2, RestingFits DEF AccountsInit, UsersOK
<1>4. EmailsAreUnique
  BY <1>1, AccountsAssumption DEF EmailsAreUnique, NoOne
<1> QED
  BY <1>3, <1>4, RestingFits DEF AccountsInit, AccountsInv, SpentOK

-----------------------------------------------------------------------------
(* Steps that change no row *)

\* A request goes on, begins or ends.
LEMMA AccountKeeps ==
  ASSUME AccountsInv, NEW r \in AccountRequests, NEW q \in AccountRequest,
         areq' = [areq EXCEPT ![r] = q], RequestOK(q),
         overtaken' \in {overtaken, overtaken \ {r}}, r \in overtaken' \/ LoadedOK(q),
         UNCHANGED <<dataVars, spent, collided, blurred>>
  PROVE  AccountsInv'
<1>1. UNCHANGED <<users, gone, calls, second, links, spent, collided, blurred>>
  BY DEF dataVars
<1>2. UsersOK'
  BY <1>1 DEF AccountsInv, UsersOK
<1>3. \A s \in AccountRequests : areq'[s] = IF s = r THEN q ELSE areq[s]
  BY DEF AccountsInv, UsersOK
<1>4. ASSUME NEW s \in AccountRequests PROVE RequestOK(areq[s])'
  <2>1. RequestOK(areq'[s])
    BY <1>3 DEF AccountsInv
  <2> QED
    BY <1>1, <2>1 DEF RequestOK
<1>5. ASSUME NEW s \in AccountRequests \ overtaken' PROVE LoadedOK(areq[s])'
  <2>1. LoadedOK(areq'[s])
    BY <1>3, <1>5 DEF AccountsInv
  <2> QED
    BY <1>1, <2>1 DEF LoadedOK, Holders
<1>6. SpentOK' /\ EmailsAreUnique'
  BY <1>1 DEF AccountsInv, SpentOK, EmailsAreUnique
<1> QED
  BY <1>2, <1>4, <1>5, <1>6 DEF AccountsInv

LEMMA FinishKeeps ==
  ASSUME AccountsInv, NEW r \in AccountRequests, Finish(r),
         UNCHANGED <<dataVars, spent, raceVars>>
  PROVE  AccountsInv'
BY RestingFits, AccountKeeps DEF Finish, raceVars

LEMMA BeginKeeps ==
  ASSUME AccountsInv, NEW r \in AccountRequests, NEW q \in AccountRequest, Begin(r, q),
         RequestOK(q), LoadedOK(q)
  PROVE  AccountsInv'
BY AccountKeeps DEF Begin

LEMMA RegisterKeeps ==
  ASSUME AccountsInv, NEW r \in AccountRequests, Register(r)
  PROVE  AccountsInv'
<1> PICK email \in Emails : Begin(r, [Resting EXCEPT !.step = "email", !.email = email])
  BY DEF Register
<1> DEFINE q == [Resting EXCEPT !.step = "email", !.email = email]
<1>1. q \in AccountRequest
  BY DEF Resting, AccountRequest, AccountOps, AdminOps, AccountSteps, NoLink, NoUserRow, NoOne
<1>2. RequestOK(q) /\ LoadedOK(q)
  BY AccountsAssumption DEF Resting, RequestOK, LoadedOK, HasRow, Creates, NoOne
<1> HIDE DEF q
<1> QED
  BY <1>1, <1>2, BeginKeeps DEF q

LEMMA AuthorisedKeeps ==
  ASSUME AccountsInv, NEW r \in AccountRequests, NEW op \in AccountOps \ {"register", "confirm"},
         NEW u \in DOMAIN users, NEW on \in UserIds \cup {NoOne}, NEW email \in Emails \cup {NoOne},
         NEW role \in Roles \cup {NoOne}, Authorised(r, op, u, on, email, role),
         op = "create" => on = NoOne /\ email # NoOne, op # "create" => on \in UserIds,
         op = "deactivate" => email = NoOne
  PROVE  AccountsInv'
<1> DEFINE was == IF on = u THEN users[u] ELSE NoUserRow
           step == IF op = "create" THEN "email" ELSE "load"
           q == [Resting EXCEPT !.op = op, !.by = u, !.on = on, !.email = email, !.role = role,
                   !.step = step, !.was = was]
<1>1. u \in UserIds /\ users[u] \in UserRow /\ users[u].changed <= second
  BY DEF AccountsInv, UsersOK
<1>2. Begin(r, q)
  BY DEF Authorised
<1>8. /\ was = IF on = u THEN users[u] ELSE NoUserRow
      /\ step = IF op = "create" THEN "email" ELSE "load"
  OBVIOUS
<1> HIDE DEF was, step
<1>9. /\ q.op = op /\ q.step = step /\ q.by = u /\ q.on = on /\ q.link = NoLink
      /\ q.email = email /\ q.role = role /\ q.was = was /\ q.new = NoUserRow
  BY DEF Resting
<1>10. u \in UserIds \cup {NoOne} /\ step \in AccountSteps /\ was \in UserRow \cup {NoUserRow}
  BY <1>1, <1>8 DEF AccountSteps
<1>3. q \in AccountRequest
  BY <1>10 DEF AccountRequest, Resting
<1> HIDE DEF q
<1>4. RequestOK(q)
  BY <1>1, <1>8, <1>9 DEF RequestOK, HasRow, Creates
<1>5. LoadedOK(q)
  BY <1>1, <1>8, <1>9 DEF LoadedOK, HasRow, Creates
<1> QED
  BY <1>2, <1>3, <1>4, <1>5, BeginKeeps

LEMMA CallKeeps ==
  ASSUME AccountsInv, NEW r \in AccountRequests, Call(r)
  PROVE  AccountsInv'
<1> PICK u \in DOMAIN users :
    \/ \E email \in Emails : Authorised(r, "create", u, NoOne, email, NoOne)
    \/ \E email \in Emails \cup {NoOne} : Authorised(r, "profile", u, u, email, NoOne)
    \/ Authorised(r, "password", u, u, NoOne, NoOne)
    \/ \E on \in UserIds \ gone :
         \/ \E email \in Emails \cup {NoOne}, role \in Roles \cup {NoOne} :
              Authorised(r, "update", u, on, email, role)
         \/ \E role \in Roles : Authorised(r, "role", u, on, NoOne, role)
         \/ \E op \in {"deactivate", "restore", "delete"} : Authorised(r, op, u, on, NoOne, NoOne)
  BY DEF Call
<1>1. u \in UserIds /\ \A email \in Emails : email # NoOne
  BY AccountsAssumption DEF AccountsInv, UsersOK, NoOne
<1>2. {"create", "profile", "password", "update", "role", "deactivate", "restore", "delete"}
        \subseteq AccountOps \ {"register", "confirm"}
  BY DEF AccountOps, AdminOps
<1> QED
  BY <1>1, <1>2, AuthorisedKeeps

LEMMA ConfirmKeeps ==
  ASSUME AccountsInv, NEW r \in AccountRequests, Confirm(r)
  PROVE  AccountsInv'
<1> PICK k \in links :
      Begin(r, [Resting EXCEPT !.op = "confirm", !.step = "load", !.on = k.user, !.link = k])
  BY DEF Confirm
<1> DEFINE user == k.user
           q == [Resting EXCEPT !.op = "confirm", !.step = "load", !.on = user, !.link = k]
<1>1. k \in Link /\ k.user \in UserIds /\ k.user # NoOne
  BY AccountsAssumption DEF AccountsInv, UsersOK, Link, NoOne
<1>2. Begin(r, q) /\ user = k.user
  OBVIOUS
<1> HIDE DEF user
<1>3. /\ q.op = "confirm" /\ q.step = "load" /\ q.by = NoOne /\ q.on = user /\ q.link = k
      /\ q.email = NoOne /\ q.role = NoOne /\ q.was = NoUserRow /\ q.new = NoUserRow
  BY DEF Resting
<1>4. q \in AccountRequest
  BY <1>1, <1>2 DEF AccountRequest, AccountSteps, AccountOps, Resting
<1> HIDE DEF q
<1>5. RequestOK(q) /\ LoadedOK(q)
  BY <1>1, <1>2, <1>3 DEF RequestOK, LoadedOK, HasRow, Creates
<1> QED
  BY <1>2, <1>4, <1>5, BeginKeeps

LEMMA LoadUserKeeps ==
  ASSUME AccountsInv, NEW r \in AccountRequests, LoadUser(r)
  PROVE  AccountsInv'
<1>1. CASE ~Allowed(r)
  BY <1>1, FinishKeeps DEF LoadUser
<1>2. CASE Allowed(r)
  <2> DEFINE p == areq[r]
             q == [p EXCEPT !.was = Row(r), !.new = Wish(r), !.step = StepAfterLoad(r)]
  <2>1. p \in AccountRequest /\ RequestOK(p) /\ p.step = "load" /\ p.on \in DOMAIN users
    BY <1>2 DEF LoadUser, AtStep, Allowed, AccountsInv, UsersOK
  <2>2. Row(r) \in UserRow /\ Row(r).changed <= second /\ second \in Seconds
    BY <2>1 DEF Row, RequestOK, AccountsInv, UsersOK
  <2>3. ~Creates(p) /\ p.on \in UserIds
    BY <2>1 DEF RequestOK
  <2>4. Wish(r) \in UserRow
    BY <2>1, <2>2 DEF Wish, UserRow, AccountRequest, NoOne
  <2>5. areq' = [areq EXCEPT ![r] = q] /\ q \in AccountRequest
    BY <1>2, <2>1, <2>2, <2>4 DEF LoadUser, AccountRequest, StepAfterLoad, AccountSteps
  <2>6. /\ q.op = p.op /\ q.by = p.by /\ q.on = p.on /\ q.link = p.link /\ q.email = p.email
        /\ q.was = Row(r) /\ q.new = Wish(r) /\ q.step = StepAfterLoad(r)
    BY <2>1 DEF AccountRequest
  <2> HIDE DEF q
  <2>7. /\ Wish(r).email = IF p.email = NoOne THEN Row(r).email ELSE p.email
        /\ Wish(r).active = CASE p.op = "deactivate" -> FALSE
                              [] p.op = "restore" -> TRUE
                              [] OTHER -> Row(r).active
        /\ p.op \in {"password", "confirm"} => Wish(r).changed = second
        /\ p.op \notin {"password", "confirm"} => Wish(r).changed = Row(r).changed
    BY DEF Wish
  <2>8. p.op = "confirm" => LinkIsFresh(p.link, Row(r)) /\ p.link \in links /\ p.link.iat <= second
    BY <1>2, <2>1 DEF Allowed, RequestOK, AccountsInv, UsersOK
  <2>9. /\ StepAfterLoad(r) \in {"calls", "email", "commit"}
        /\ StepAfterLoad(r) = "calls" => p.op = "deactivate"
        /\ StepAfterLoad(r) = "email" => p.op # "deactivate"
        /\ StepAfterLoad(r) = "commit" => p.email = NoOne /\ p.op # "deactivate"
    <3>1. CASE p.op = "deactivate"
      <4>1. StepAfterLoad(r) = "calls"
        BY <2>1, <2>3, <3>1 DEF StepAfterLoad, RequestOK
      <4> QED
        BY <3>1, <4>1
    <3>2. CASE p.op # "deactivate" /\ p.email # NoOne
      BY <3>2 DEF StepAfterLoad
    <3>3. CASE p.op # "deactivate" /\ p.email = NoOne
      BY <3>3 DEF StepAfterLoad
    <3> QED
      BY <3>1, <3>2, <3>3
  <2>10. second <= second
    BY <2>2 DEF Seconds
  <2>11. RequestOK(p)
    BY <2>1
  <2>12. RequestOK(q)
    <3>1. q.op = "confirm" => q.by = NoOne /\ q.link \in links /\ q.link.user = q.on
      BY <2>1, <2>6 DEF RequestOK
    <3>2. q.op = "deactivate" => q.email = NoOne
      BY <2>1, <2>6 DEF RequestOK
    <3>3. ~Creates(q) /\ q.on \in UserIds
      BY <2>3, <2>6 DEF Creates
    <3>4. /\ q.step \in {"calls", "email", "commit"}
          /\ q.step = "calls" => q.op = "deactivate"
          /\ q.step = "email" => q.op # "deactivate"
      BY <2>6, <2>9
    <3> QED
      BY <2>2, <2>4, <2>6, <2>7, <2>8, <2>10, <3>1, <3>2, <3>3, <3>4 DEF RequestOK, HasRow
  <2>13. r \in overtaken \/ LoadedOK(q)
    <3>1. r \notin overtaken => Row(r) = users[p.on]
      BY <2>1 DEF Row, AccountsInv, LoadedOK
    <3> QED
      BY <2>1, <2>6, <2>9, <3>1 DEF LoadedOK
  <2> QED
    BY <1>2, <2>5, <2>12, <2>13, AccountKeeps DEF LoadUser, raceVars
<1> QED
  BY <1>1, <1>2

LEMMA CheckKeeps ==
  ASSUME AccountsInv, NEW r \in AccountRequests, CheckCalls(r) \/ EmailIsFree(r) \/ EmailIsTaken(r)
  PROVE  AccountsInv'
<1> DEFINE p == areq[r]
           q == [p EXCEPT !.step = "commit"]
<1>1. UNCHANGED <<dataVars, spent, raceVars>> /\ (Finish(r) \/ GoOn(r, "commit"))
  BY DEF CheckCalls, EmailIsFree, EmailIsTaken
<1>2. CASE GoOn(r, "commit") /\ ~Finish(r)
  <2>1. p \in AccountRequest /\ RequestOK(p) /\ p.step \in {"calls", "email"}
    BY DEF CheckCalls, EmailIsFree, EmailIsTaken, AtStep, AccountsInv, UsersOK
  <2>2. areq' = [areq EXCEPT ![r] = q]
    BY <1>2 DEF GoOn
  <2>3. /\ q.step = "commit" /\ q.op = p.op /\ q.by = p.by /\ q.on = p.on /\ q.link = p.link
        /\ q.email = p.email /\ q.was = p.was /\ q.new = p.new /\ q \in AccountRequest
    BY <2>1 DEF AccountRequest, AccountSteps
  <2>4. RequestOK(q)
    BY <2>1, <2>3 DEF RequestOK, HasRow, Creates
  <2>5. r \in overtaken \/ LoadedOK(q)
    <3> SUFFICES ASSUME r \notin overtaken PROVE LoadedOK(q)
      OBVIOUS
    <3>1. LoadedOK(p)
      BY DEF AccountsInv
    <3>2. HasRow(q) => q.on \in DOMAIN users /\ q.was = users[q.on]
      BY <2>1, <2>3, <3>1 DEF LoadedOK, HasRow, Creates
    <3>3. q.email # NoOne => collided \/ Holders(q.email) \subseteq {q.on}
      <4> SUFFICES ASSUME q.email # NoOne, ~collided PROVE Holders(q.email) \subseteq {q.on}
        OBVIOUS
      <4>1. p.step = "email"
        BY <2>1, <2>3 DEF RequestOK
      <4>2. Holders(p.email) = {} \/ p.on \in Holders(p.email)
        BY <1>2, <4>1 DEF CheckCalls, EmailIsFree, EmailIsTaken, AtStep
      <4> QED
        BY <2>3, <4>2 DEF AccountsInv, EmailsAreUnique, Holders
    <3>4. q.op = "deactivate" => calls[q.on] # "live"
      BY <1>2, <2>1, <2>3 DEF CheckCalls, EmailIsFree, EmailIsTaken, AtStep, RequestOK
    <3> QED
      BY <2>3, <3>2, <3>3, <3>4 DEF LoadedOK
  <2> HIDE DEF q
  <2> QED
    BY <1>1, <2>2, <2>3, <2>4, <2>5, AccountKeeps DEF raceVars
<1> QED
  BY <1>1, <1>2, FinishKeeps

-----------------------------------------------------------------------------
(* Steps that change a row *)

LEMMA RowAfterFits ==
  ASSUME NEW now \in UserRow, NEW was \in UserRow, NEW new \in UserRow
  PROVE  LET row == RowAfter(now, was, new)
         IN /\ row \in UserRow
            /\ row.email = IF new.email # was.email THEN new.email ELSE now.email
            /\ row.active = IF new.active # was.active THEN new.active ELSE now.active
            /\ row.changed = IF new.changed # was.changed THEN new.changed ELSE now.changed
<1>1. DOMAIN now = {"email", "role", "active", "changed"}
  BY DEF UserRow
<1>2. RowAfter(now, was, new)
        = [email   |-> IF new.email # was.email THEN new.email ELSE now.email,
           role    |-> IF new.role # was.role THEN new.role ELSE now.role,
           active  |-> IF new.active # was.active THEN new.active ELSE now.active,
           changed |-> IF new.changed # was.changed THEN new.changed ELSE now.changed]
  BY <1>1 DEF RowAfter
<1> QED
  BY <1>2 DEF UserRow

\* A row is stored over what is there now; only who stores it goes on.
LEMMA StoresKeeps ==
  ASSUME AccountsInv, NEW r \in AccountRequests, NEW u \in UserIds \ gone, NEW row \in UserRow,
         Stores(r, u, row), row.changed <= second,
         NEW q \in AccountRequest, areq' = [areq EXCEPT ![r] = q], RequestOK(q), q.step \in {"idle", "answer"},
         \/ u \in DOMAIN users /\ row.email = users[u].email
         \/ collided \/ r \in overtaken \/ Holders(row.email) \subseteq {u},
         spent' \subseteq links, blurred \subseteq blurred', \A k \in spent' : k \in spent \/ k.user = u,
         u \notin blurred' => \A k \in spent' : k.user = u => k.iat <= row.changed
  PROVE  AccountsInv'
<1>1. /\ DOMAIN users' = DOMAIN users \cup {u}
      /\ users'[u] = row
      /\ \A v \in DOMAIN users \ {u} : users'[v] = users[v]
      /\ UNCHANGED <<gone, calls, second, links>>
      /\ collided' = (collided \/ (r \in overtaken /\ Holders(row.email) \ {u} # {}))
  BY DEF Stores
<1>2. \A s \in AccountRequests : areq'[s] = IF s = r THEN q ELSE areq[s]
  BY DEF AccountsInv, UsersOK
<1>3. areq' \in [AccountRequests -> AccountRequest]
  BY DEF AccountsInv, UsersOK
<1>4. UsersOK'
  <2>1. DOMAIN users' \subseteq UserIds \ gone'
    BY <1>1 DEF AccountsInv, UsersOK
  <2>2. \A v \in DOMAIN users' : users'[v] \in UserRow /\ users'[v].changed <= second'
    BY <1>1 DEF AccountsInv, UsersOK
  <2>3. collided' \in BOOLEAN
    BY <1>1 DEF AccountsInv, UsersOK
  <2> QED
    BY <1>1, <1>3, <2>1, <2>2, <2>3 DEF AccountsInv, UsersOK
<1>5. ASSUME NEW s \in AccountRequests PROVE RequestOK(areq[s])'
  <2>1. RequestOK(areq'[s])
    BY <1>2 DEF AccountsInv
  <2> QED
    BY <1>1, <2>1 DEF RequestOK
<1>6. ASSUME NEW s \in AccountRequests \ overtaken' PROVE LoadedOK(areq[s])'
  <2>1. areq'[s].step \in {"idle", "answer"}
    BY <1>2 DEF Stores, Overtakes, AtStep
  <2> QED
    BY <2>1 DEF LoadedOK, HasRow
<1>7. SpentOK'
  <2> SUFFICES ASSUME NEW k \in spent', k.user \in DOMAIN users' \ blurred' PROVE k.iat <= users'[k.user].changed
    BY DEF SpentOK
  <2>1. CASE k.user = u
    BY <1>1, <2>1
  <2>2. CASE k.user # u
    BY <1>1, <2>2 DEF AccountsInv, SpentOK
  <2> QED
    BY <2>1, <2>2
<1>8. EmailsAreUnique'
  <2> SUFFICES ASSUME ~collided', NEW v \in DOMAIN users', NEW w \in DOMAIN users', users'[v].email = users'[w].email, v # w
               PROVE FALSE
    BY DEF EmailsAreUnique
  <2>1. ~collided /\ \A x, y \in DOMAIN users : users[x].email = users[y].email => x = y
    BY <1>1 DEF AccountsInv, EmailsAreUnique
  <2>2. \A x \in DOMAIN users \ {u} : users[x].email # row.email
    BY <1>1, <2>1 DEF Holders
  <2> QED
    BY <1>1, <2>1, <2>2
<1> QED
  BY <1>4, <1>5, <1>6, <1>7, <1>8 DEF AccountsInv

LEMMA InsertUserKeeps ==
  ASSUME AccountsInv, NEW r \in AccountRequests, InsertUser(r)
  PROVE  AccountsInv'
<1> DEFINE u == CHOOSE v \in UserIds \ (DOMAIN users \cup gone) : TRUE
           row == [email |-> areq[r].email, role |-> "user", active |-> TRUE, changed |-> Never]
<1>1. u \in UserIds \ (DOMAIN users \cup gone)
  BY DEF InsertUser
<1>2. areq[r] \in AccountRequest /\ areq[r].email \in Emails /\ areq[r].on = NoOne
  BY DEF InsertUser, AtStep, AccountsInv, UsersOK, RequestOK, Creates, AccountRequest
<1>3. row \in UserRow /\ row.changed <= second /\ row.email = areq[r].email
  BY <1>2 DEF UserRow, Roles, AccountsInv, UsersOK, Seconds, Never
<1>4. collided \/ r \in overtaken \/ Holders(row.email) \subseteq {u}
  <2>1. r \notin overtaken => collided \/ Holders(areq[r].email) \subseteq {NoOne}
    BY <1>2, AccountsAssumption DEF InsertUser, AtStep, AccountsInv, LoadedOK, NoOne
  <2>2. NoOne \notin Holders(areq[r].email)
    BY AccountsAssumption DEF Holders, AccountsInv, UsersOK, NoOne
  <2> QED
    BY <1>3, <2>1, <2>2
<1>5. \A k \in spent : k \in links /\ k.user # u
  BY <1>1 DEF AccountsInv, UsersOK
<1>6. /\ Stores(r, u, row) /\ areq' = [areq EXCEPT ![r] = Resting]
      /\ Resting \in AccountRequest /\ RequestOK(Resting) /\ Resting.step = "idle"
      /\ UNCHANGED <<spent, blurred>>
  BY RestingFits DEF InsertUser, Finish, Resting
<1> HIDE DEF u, row
<1> QED
  BY <1>1, <1>3, <1>4, <1>5, <1>6, StoresKeeps

LEMMA UpdateUserKeeps ==
  ASSUME AccountsInv, NEW r \in AccountRequests, UpdateUser(r)
  PROVE  AccountsInv'
<1> DEFINE p == areq[r]
           now == users[p.on]
           row == RowAfter(now, p.was, p.new)
<1>1. /\ p \in AccountRequest /\ RequestOK(p) /\ HasRow(p) /\ p.step = "commit"
      /\ p.on \in DOMAIN users /\ p.on \in UserIds \ gone
      /\ now \in UserRow /\ now.changed <= second /\ p.was \in UserRow /\ p.new \in UserRow
  BY DEF UpdateUser, AtStep, AccountsInv, UsersOK, HasRow, Creates, RequestOK
<1>2. /\ row \in UserRow
      /\ row.email = IF p.new.email # p.was.email THEN p.new.email ELSE now.email
      /\ row.changed = IF p.new.changed # p.was.changed THEN p.new.changed ELSE now.changed
  BY <1>1, RowAfterFits
<1> HIDE DEF row
<1>3. row.changed <= second
  BY <1>1, <1>2 DEF RequestOK
<1>4. \/ row.email = now.email
      \/ collided \/ r \in overtaken \/ Holders(row.email) \subseteq {p.on}
  <2> SUFFICES ASSUME row.email # now.email, r \notin overtaken PROVE collided \/ Holders(row.email) \subseteq {p.on}
    OBVIOUS
  <2>1. p.email # NoOne /\ row.email = p.email
    BY <1>1, <1>2 DEF RequestOK
  <2> QED
    BY <1>1, <2>1 DEF AccountsInv, LoadedOK
<1>5. /\ spent' \subseteq links /\ blurred \subseteq blurred'
      /\ \A k \in spent' : k \in spent \/ (k = p.link /\ k.user = p.on /\ p.op = "confirm")
  BY <1>1 DEF UpdateUser, AccountsInv, UsersOK, RequestOK
<1>6. ASSUME p.on \notin blurred', NEW k \in spent', k.user = p.on PROVE k.iat <= row.changed
  <2>1. CASE p.op \notin {"password", "confirm"}
    BY <1>1, <1>2, <1>5, <1>6, <2>1 DEF AccountsInv, SpentOK, RequestOK
  <2>2. CASE p.op \in {"password", "confirm"}
    <3>1. r \notin overtaken
      BY <1>6, <2>2 DEF UpdateUser
    <3>2. p.was = now
      BY <1>1, <3>1 DEF AccountsInv, LoadedOK
    <3>3. row.changed = p.new.changed /\ now.changed <= p.new.changed
      BY <1>1, <1>2, <2>2, <3>2 DEF RequestOK
    <3>4. CASE k \in spent
      <4>1. k.iat <= now.changed
        BY <1>1, <1>5, <1>6, <3>4 DEF AccountsInv, SpentOK
      <4>2. k.iat \in Int /\ now.changed \in Int /\ p.new.changed \in Int
        BY <1>1, <1>5, <1>6, AccountsAssumption DEF AccountsInv, UsersOK, Link, UserRow, Seconds, Never
      <4> QED
        BY <3>3, <4>1, <4>2
    <3>5. CASE k \notin spent
      BY <1>1, <1>5, <1>6, <3>3, <3>5 DEF RequestOK
    <3> QED
      BY <3>4, <3>5
  <2> QED
    BY <2>1, <2>2
<1>7. PICK q \in AccountRequest : areq' = [areq EXCEPT ![r] = q] /\ RequestOK(q) /\ q.step \in {"idle", "answer"}
  <2>1. CASE GoOn(r, "answer")
    <3> DEFINE q == [p EXCEPT !.step = "answer"]
    <3>1. /\ q \in AccountRequest /\ q.step = "answer" /\ q.op = p.op /\ q.by = p.by /\ q.on = p.on
          /\ q.link = p.link /\ q.email = p.email
      BY <1>1 DEF AccountRequest, AccountSteps
    <3>2. ~Creates(q) /\ ~HasRow(q)
      BY <1>1, <3>1 DEF HasRow, Creates
    <3>3. areq' = [areq EXCEPT ![r] = q]
      BY <2>1 DEF GoOn
    <3> HIDE DEF q
    <3>4. RequestOK(q)
      BY <1>1, <3>1, <3>2 DEF RequestOK, HasRow
    <3> QED
      BY <3>1, <3>3, <3>4
  <2>2. CASE Finish(r)
    BY <2>2, RestingFits DEF Finish, Resting
  <2> QED
    BY <2>1, <2>2 DEF UpdateUser
<1>8. Stores(r, p.on, row)
  BY DEF UpdateUser, row
<1> HIDE DEF now
<1>9. now = users[p.on]
  BY DEF now
<1> QED
  BY <1>1, <1>2, <1>3, <1>4, <1>5, <1>6, <1>7, <1>8, <1>9, StoresKeeps

LEMMA EraseKeeps ==
  ASSUME AccountsInv, NEW r \in AccountRequests, EraseUser(r)
  PROVE  AccountsInv'
<1> DEFINE u == areq[r].on
<1>1. /\ DOMAIN users' = DOMAIN users \ {u} /\ \A v \in DOMAIN users' : users'[v] = users[v]
      /\ u \in DOMAIN users /\ gone' = gone \cup {u}
      /\ UNCHANGED <<calls, second, links, spent, collided, blurred>>
      /\ areq' = [areq EXCEPT ![r] = Resting]
  BY DEF EraseUser, Finish
<1>2. \A s \in AccountRequests : areq'[s] = IF s = r THEN Resting ELSE areq[s]
  BY <1>1 DEF AccountsInv, UsersOK
<1>3. UsersOK'
  BY <1>1, RestingFits DEF AccountsInv, UsersOK
<1>4. ASSUME NEW s \in AccountRequests PROVE RequestOK(areq[s])'
  <2>1. RequestOK(areq'[s])
    BY <1>2, RestingFits DEF AccountsInv
  <2> QED
    BY <1>1, <2>1 DEF RequestOK
<1>5. ASSUME NEW s \in AccountRequests \ overtaken' PROVE LoadedOK(areq[s])'
  <2>1. areq'[s].step = "idle"
    BY <1>2 DEF EraseUser, Overtakes, AtStep, Resting
  <2> QED
    BY <2>1 DEF LoadedOK, HasRow
<1>6. SpentOK' /\ EmailsAreUnique'
  BY <1>1 DEF AccountsInv, SpentOK, EmailsAreUnique
<1> QED
  BY <1>3, <1>4, <1>5, <1>6 DEF AccountsInv

-----------------------------------------------------------------------------
(* The rest of the system *)

LEMMA LinkKeeps == AccountsInv /\ AskForLink => AccountsInv'
<1> SUFFICES ASSUME AccountsInv, AskForLink PROVE AccountsInv'
  OBVIOUS
<1> PICK u \in DOMAIN users : links' = links \cup {[user |-> u, iat |-> second]}
  BY DEF AskForLink
<1>1. UNCHANGED <<users, gone, calls, second, spent, areq, overtaken, collided, blurred>>
  BY DEF AskForLink, raceVars
<1>2. second <= second /\ [user |-> u, iat |-> second] \in Link
  BY DEF AccountsInv, UsersOK, Seconds, Link
<1>3. UsersOK'
  BY <1>1, <1>2 DEF AccountsInv, UsersOK
<1>4. ASSUME NEW s \in AccountRequests PROVE RequestOK(areq[s])'
  BY <1>1 DEF AccountsInv, RequestOK
<1>5. ASSUME NEW s \in AccountRequests \ overtaken' PROVE LoadedOK(areq[s])'
  BY <1>1 DEF AccountsInv, LoadedOK, Holders
<1>6. SpentOK' /\ EmailsAreUnique'
  BY <1>1 DEF AccountsInv, SpentOK, EmailsAreUnique
<1> QED
  BY <1>3, <1>4, <1>5, <1>6 DEF AccountsInv

LEMMA ExecutorsKeep == AccountsInv /\ Executors => AccountsInv'
<1> SUFFICES ASSUME AccountsInv, Executors PROVE AccountsInv'
  OBVIOUS
<1> PICK u \in DOMAIN users : CallBegins(u) \/ CallEnds(u)
  BY DEF Executors
<1>1. UNCHANGED <<users, gone, second, links, spent, areq, collided, blurred>>
  BY DEF Executors
<1>2. UsersOK'
  <2>1. calls' \in [UserIds -> {"none", "live", "past"}]
    BY DEF CallBegins, CallEnds, AccountsInv, UsersOK
  <2> QED
    BY <1>1, <2>1 DEF AccountsInv, UsersOK
<1>3. ASSUME NEW s \in AccountRequests PROVE RequestOK(areq[s])'
  BY <1>1 DEF AccountsInv, RequestOK
<1>4. ASSUME NEW s \in AccountRequests \ overtaken' PROVE LoadedOK(areq[s])'
  <2>1. s \notin overtaken /\ LoadedOK(areq[s])
    BY <1>4 DEF CallBegins, CallEnds, Overtakes, AccountsInv
  <2>2. areq[s].step = "commit" /\ areq[s].op = "deactivate" => calls'[areq[s].on] # "live"
    <3> SUFFICES ASSUME areq[s].step = "commit", areq[s].op = "deactivate" PROVE calls'[areq[s].on] # "live"
      OBVIOUS
    <3>1. areq[s].on \in UserIds /\ calls[areq[s].on] # "live"
      BY <2>1 DEF AccountsInv, RequestOK, LoadedOK, Creates
    <3>2. CASE CallBegins(u)
      BY <1>4, <3>1, <3>2 DEF CallBegins, Overtakes, AtStep, AccountsInv, UsersOK
    <3>3. CASE CallEnds(u)
      BY <3>1, <3>3 DEF CallEnds, AccountsInv, UsersOK
    <3> QED
      BY <3>2, <3>3
  <2> QED
    BY <1>1, <2>1, <2>2 DEF LoadedOK, Holders
<1>5. SpentOK' /\ EmailsAreUnique'
  BY <1>1 DEF AccountsInv, SpentOK, EmailsAreUnique
<1> QED
  BY <1>2, <1>3, <1>4, <1>5 DEF AccountsInv

LEMMA TickKeeps == AccountsInv /\ Tick => AccountsInv'
<1> SUFFICES ASSUME AccountsInv, Tick PROVE AccountsInv'
  OBVIOUS
<1>1. UNCHANGED <<users, gone, calls, links, spent, areq, overtaken, collided, blurred>>
  BY DEF Tick, raceVars
<1>2. second' \in Seconds /\ second' = second + 1 /\ \A n \in Seconds \cup {Never} : n <= second => n <= second'
  BY AccountsAssumption DEF Tick, AccountsInv, UsersOK, Seconds, Never
<1>3. UsersOK'
  BY <1>1, <1>2 DEF AccountsInv, UsersOK, UserRow, Link
<1>4. ASSUME NEW s \in AccountRequests PROVE RequestOK(areq[s])'
  BY <1>1, <1>2 DEF AccountsInv, RequestOK, UserRow
<1>5. ASSUME NEW s \in AccountRequests \ overtaken' PROVE LoadedOK(areq[s])'
  BY <1>1 DEF AccountsInv, LoadedOK, Holders
<1>6. SpentOK' /\ EmailsAreUnique'
  BY <1>1 DEF AccountsInv, SpentOK, EmailsAreUnique
<1> QED
  BY <1>3, <1>4, <1>5, <1>6 DEF AccountsInv

LEMMA AccountsStepInv == AccountsInv /\ [AccountsNext]_accountVars => AccountsInv'
<1> SUFFICES ASSUME AccountsInv, [AccountsNext]_accountVars PROVE AccountsInv'
  OBVIOUS
<1>1. ASSUME NEW r \in AccountRequests, AccountStep(r) PROVE AccountsInv'
  <2>1. CASE CommitFails(r) \/ AnswerProfile(r)
    BY <2>1, FinishKeeps DEF CommitFails, AnswerProfile
  <2> QED
    BY <1>1, <2>1, RegisterKeeps, CallKeeps, ConfirmKeeps, LoadUserKeeps, CheckKeeps, InsertUserKeeps,
       UpdateUserKeeps, EraseKeeps DEF AccountStep
<1>2. CASE UNCHANGED accountVars
  <2>1. UNCHANGED <<users, gone, calls, second, links, spent, areq, overtaken, collided, blurred>>
    BY <1>2 DEF accountVars, dataVars, raceVars
  <2>2. \A s \in AccountRequests : RequestOK(areq[s])' /\ (s \notin overtaken' => LoadedOK(areq[s])')
    BY <2>1 DEF AccountsInv, RequestOK, LoadedOK, Holders
  <2>3. UsersOK' /\ SpentOK' /\ EmailsAreUnique'
    BY <2>1 DEF AccountsInv, UsersOK, SpentOK, EmailsAreUnique
  <2> QED
    BY <2>2, <2>3 DEF AccountsInv
<1> QED
  BY <1>1, <1>2, LinkKeeps, ExecutorsKeep, TickKeeps DEF AccountsNext

LEMMA AccountsInductive == AccountsSpec => []AccountsInv
BY AccountsInitInv, AccountsStepInv, PTL DEF AccountsSpec

-----------------------------------------------------------------------------
(* Theorems *)

\* Two users share an address only once a registration, a creation or a change
\* of address during which another request has committed has met one.
THEOREM AddressesAreUnique == AccountsSpec => []EmailsAreUnique
BY AccountsInductive, PTL DEF AccountsInv

\* A reset link works a second time only for a request that was overtaken by some
\* commit, or after one that was has stored an older stamp over a newer one.
THEOREM ResetLinksWorkOnce == AccountsSpec => LinksWorkOnce
<1>1. ASSUME AccountsInv, [AccountsNext]_accountVars, NEW r \in AccountRequests,
             AtStep(r, "commit"), ~AtStep(r, "commit")', areq[r].op = "confirm",
             areq[r].link \in spent, r \notin overtaken
      PROVE  areq[r].on \in blurred
  <2>1. HasRow(areq[r])
    BY <1>1 DEF HasRow, Creates, AtStep
  <2>2. /\ areq[r].on \in DOMAIN users /\ areq[r].was = users[areq[r].on]
        /\ LinkIsFresh(areq[r].link, areq[r].was) /\ areq[r].link.user = areq[r].on
        /\ areq[r].link \in Link /\ areq[r].was \in UserRow
    BY <1>1, <2>1 DEF AccountsInv, LoadedOK, RequestOK, UsersOK, AtStep
  <2>3. areq[r].link.iat \in 0..MaxSecond /\ areq[r].was.changed \in Int
    BY <2>2, AccountsAssumption DEF Link, Seconds, UserRow, Never
  <2>4. ~(areq[r].link.iat <= areq[r].was.changed)
    BY <2>2, <2>3, AccountsAssumption DEF LinkIsFresh, Never
  <2> QED
    BY <1>1, <2>2, <2>4 DEF AccountsInv, SpentOK
<1>2. AccountsInv /\ [AccountsNext]_accountVars
        => [\A r \in AccountRequests :
              AtStep(r, "commit") /\ ~AtStep(r, "commit")' /\ areq[r].op = "confirm" /\ areq[r].link \in spent
                => r \in overtaken \/ areq[r].on \in blurred]_accountVars
  BY <1>1
<1> QED
  BY <1>2, AccountsInductive, PTL DEF AccountsSpec, LinksWorkOnce

\* A user is deactivated during a call only when a request to deactivate them was
\* overtaken, by the call's begin or another request's commit.
THEOREM DeactivationSparesCalls == AccountsSpec => NoCallIsOrphaned
<1>1. ASSUME AccountsInv, [AccountsNext]_accountVars, NEW u \in DOMAIN users \cap DOMAIN users',
             users[u].active, ~users'[u].active, calls[u] = "live"
      PROVE  \E r \in overtaken : areq[r].op = "deactivate" /\ areq[r].on = u
  <2>1. PICK r \in AccountRequests : InsertUser(r) \/ UpdateUser(r) \/ EraseUser(r)
    <3>1. users' # users
      BY <1>1
    <3>2. ~UNCHANGED users => ~AskForLink /\ ~Executors /\ ~Tick /\ ~UNCHANGED accountVars
      BY DEF AskForLink, Executors, Tick, dataVars, accountVars
    <3>3. PICK r \in AccountRequests : AccountStep(r)
      BY <1>1, <3>1, <3>2 DEF AccountsNext
    <3>4. ~UNCHANGED users => ~Register(r) /\ ~Call(r) /\ ~Confirm(r)
      BY DEF Register, Call, Authorised, Confirm, Begin, dataVars
    <3>5. ~UNCHANGED users => ~LoadUser(r) /\ ~CheckCalls(r) /\ ~EmailIsFree(r) /\ ~EmailIsTaken(r)
                              /\ ~CommitFails(r) /\ ~AnswerProfile(r)
      BY DEF LoadUser, CheckCalls, EmailIsFree, EmailIsTaken, CommitFails, AnswerProfile, dataVars
    <3> QED
      BY <3>1, <3>3, <3>4, <3>5 DEF AccountStep
  <2>2. CASE InsertUser(r)
    <3> DEFINE new == CHOOSE v \in UserIds \ (DOMAIN users \cup gone) : TRUE
    <3>1. new \notin DOMAIN users
      BY <2>2 DEF InsertUser
    <3>2. users'[u] = users[u]
      BY <2>2, <3>1 DEF InsertUser, Stores
    <3> QED
      BY <1>1, <3>2
  <2>3. CASE EraseUser(r)
    BY <1>1, <2>3 DEF EraseUser
  <2>4. CASE UpdateUser(r)
    <3> DEFINE p == areq[r]
               row == RowAfter(users[p.on], p.was, p.new)
    <3>1. /\ p.on \in DOMAIN users /\ HasRow(p) /\ RequestOK(p)
          /\ users[p.on] \in UserRow /\ p.was \in UserRow /\ p.new \in UserRow
      BY <1>1, <2>4 DEF UpdateUser, AtStep, AccountsInv, UsersOK, HasRow, Creates, RequestOK
    <3>2. row.active = IF p.new.active # p.was.active THEN p.new.active ELSE users[p.on].active
      BY <3>1, RowAfterFits
    <3> HIDE DEF row
    <3>3. \A v \in DOMAIN users : users'[v] = IF v = p.on THEN row ELSE users[v]
      BY <2>4 DEF UpdateUser, Stores, row
    <3>4. p.on = u /\ ~row.active
      BY <1>1, <3>3
    <3>5. p.op = "deactivate"
      BY <1>1, <3>1, <3>2, <3>4 DEF RequestOK, UserRow
    <3>6. r \in overtaken
      BY <1>1, <2>4, <3>4, <3>5 DEF AccountsInv, LoadedOK, UpdateUser, AtStep
    <3> QED
      BY <3>4, <3>5, <3>6
  <2> QED
    BY <2>1, <2>2, <2>3, <2>4
<1>2. AccountsInv /\ [AccountsNext]_accountVars
        => [\A u \in DOMAIN users \cap DOMAIN users' :
              users[u].active /\ ~users'[u].active /\ calls[u] = "live"
                => \E r \in overtaken : areq[r].op = "deactivate" /\ areq[r].on = u]_accountVars
  BY <1>1
<1> QED
  BY <1>2, AccountsInductive, PTL DEF AccountsSpec, NoCallIsOrphaned

-----------------------------------------------------------------------------
(* Types *)

\* Which users and links there have been.
TracesOK ==
  /\ gone \subseteq UserIds /\ overtaken \subseteq AccountRequests
  /\ blurred \subseteq UserIds /\ warned \subseteq UserIds
  /\ \A r \in AccountRequests : areq[r].link \in links \cup {NoLink}

LEMMA TracesInit == AccountsInit => TracesOK
BY DEF AccountsInit, TracesOK, Resting

LEMMA RequestTraces ==
  ASSUME AccountsInv, TracesOK, NEW r \in AccountRequests, NEW q,
         areq' = [areq EXCEPT ![r] = q], q.link \in links \cup {NoLink},
         links' = links, gone' \subseteq UserIds, blurred' \subseteq UserIds, warned' \subseteq UserIds,
         overtaken' \subseteq AccountRequests
  PROVE  TracesOK'
<1>1. \A s \in AccountRequests : areq'[s] = IF s = r THEN q ELSE areq[s]
  BY DEF AccountsInv, UsersOK
<1> QED
  BY <1>1 DEF TracesOK

LEMMA TracesStep == AccountsInv /\ TracesOK /\ [AccountsNext]_accountVars => TracesOK'
<1> SUFFICES ASSUME AccountsInv, TracesOK, [AccountsNext]_accountVars PROVE TracesOK'
  OBVIOUS
<1> USE DEF dataVars, raceVars
<1>1. ASSUME NEW r \in AccountRequests, AccountStep(r) PROVE TracesOK'
  <2>a. areq \in [AccountRequests -> AccountRequest] /\ areq[r].link \in links \cup {NoLink}
        /\ DOMAIN users \subseteq UserIds
    BY DEF AccountsInv, UsersOK, TracesOK
  <2>b. Resting.link = NoLink
    BY DEF Resting
  <2>1. ASSUME NEW k \in links \cup {NoLink}, NEW q, q.link = k, Begin(r, q) PROVE TracesOK'
    BY <2>1, RequestTraces DEF Begin, TracesOK
  <2>2. CASE Register(r)
    BY <2>1, <2>2 DEF Register, Resting
  <2>3. ASSUME NEW op, NEW u, NEW on, NEW email, NEW role, Authorised(r, op, u, on, email, role) PROVE TracesOK'
    BY <2>1, <2>3 DEF Authorised, Resting
  <2>4. CASE Call(r)
    BY <2>3, <2>4 DEF Call
  <2>5. CASE Confirm(r)
    BY <2>1, <2>5 DEF Confirm, Resting
  <2>6. ASSUME Finish(r) \/ \E step : GoOn(r, step), links' = links, gone' \subseteq UserIds,
               blurred' \subseteq UserIds, warned' \subseteq UserIds, overtaken' \subseteq AccountRequests
        PROVE  TracesOK'
    <3>1. CASE Finish(r)
      BY <2>6, <2>b, <3>1, RequestTraces DEF Finish
    <3>2. ASSUME NEW step, GoOn(r, step) PROVE TracesOK'
      <4> DEFINE q == [areq[r] EXCEPT !.step = step]
      <4>1. areq' = [areq EXCEPT ![r] = q] /\ q.link = areq[r].link
        BY <2>a, <3>2 DEF GoOn, AccountRequest
      <4> HIDE DEF q
      <4> QED
        BY <2>6, <2>a, <4>1, RequestTraces
    <3> QED
      BY <2>6, <3>1, <3>2
  <2>7. CASE LoadUser(r)
    <3>1. UNCHANGED <<links, gone, blurred, warned, overtaken>>
      BY <2>7 DEF LoadUser
    <3>2. CASE Finish(r)
      BY <2>6, <3>1, <3>2 DEF TracesOK
    <3>3. CASE ~Finish(r)
      <4> DEFINE q == [areq[r] EXCEPT !.was = Row(r), !.new = Wish(r), !.step = StepAfterLoad(r)]
      <4>1. areq' = [areq EXCEPT ![r] = q] /\ q.link = areq[r].link
        BY <2>a, <2>7, <3>3 DEF LoadUser, AccountRequest
      <4> HIDE DEF q
      <4> QED
        BY <2>a, <3>1, <4>1, RequestTraces DEF TracesOK
    <3> QED
      BY <3>2, <3>3
  <2>8. CASE CheckCalls(r) \/ EmailIsFree(r) \/ EmailIsTaken(r) \/ CommitFails(r)
    BY <2>6, <2>8 DEF CheckCalls, EmailIsFree, EmailIsTaken, CommitFails, TracesOK
  <2>9. CASE AnswerProfile(r)
    <3>1. warned' \subseteq UserIds
      BY <2>9, <2>a DEF AnswerProfile, TracesOK
    <3> QED
      BY <2>6, <2>9, <3>1 DEF AnswerProfile, TracesOK
  <2>10. CASE InsertUser(r)
    BY <2>6, <2>10 DEF InsertUser, Stores, Overtakes, TracesOK
  <2>11. CASE UpdateUser(r)
    <3>1. blurred' \subseteq UserIds
      BY <2>11, <2>a DEF UpdateUser, TracesOK
    <3>2. overtaken' \subseteq AccountRequests /\ UNCHANGED <<links, gone, warned>>
      BY <2>11 DEF UpdateUser, Stores, Overtakes, TracesOK
    <3> QED
      BY <2>6, <2>11, <3>1, <3>2 DEF UpdateUser, TracesOK
  <2>12. CASE EraseUser(r)
    <3>1. gone' \subseteq UserIds /\ overtaken' \subseteq AccountRequests
      BY <2>12, <2>a DEF EraseUser, Overtakes, TracesOK
    <3> QED
      BY <2>6, <2>12, <3>1 DEF EraseUser, TracesOK
  <2> QED
    BY <1>1, <2>2, <2>4, <2>5, <2>7, <2>8, <2>9, <2>10, <2>11, <2>12 DEF AccountStep
<1>2. CASE AskForLink
  <2>1. links \subseteq links' /\ UNCHANGED <<gone, areq, overtaken, blurred, warned>>
    BY <1>2 DEF AskForLink
  <2> QED
    BY <2>1 DEF TracesOK
<1>3. CASE Executors
  <2>1. overtaken' \subseteq AccountRequests
    BY <1>3 DEF Executors, CallBegins, CallEnds, Overtakes, TracesOK
  <2> QED
    BY <1>3, <2>1 DEF Executors, TracesOK
<1>4. CASE Tick \/ UNCHANGED accountVars
  BY <1>4 DEF Tick, accountVars, TracesOK
<1> QED
  BY <1>1, <1>2, <1>3, <1>4 DEF AccountsNext

LEMMA AccountsFit == AccountsInv /\ TracesOK => AccountsTypeOK
BY DEF AccountsInv, UsersOK, AccountRequest, TracesOK, AccountsTypeOK
=============================================================================
