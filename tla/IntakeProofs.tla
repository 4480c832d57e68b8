----------------------------- MODULE IntakeProofs -----------------------------
(***************************************************************************)
(* The check-then-act endpoints: template names clash only through a race  *)
(* or a restore, and concurrent creations exceed a quota by no more than   *)
(* their number; for any number of requests and rows and any limits.       *)
(***************************************************************************)
EXTENDS TaskIntake, FiniteSetTheorems, TLAPS

(* Template names *)

CatalogRequest ==
  [op : CatalogOps \cup {"none"}, step : {"free", "load", "name", "write"},
   id : TemplateIds \cup {NoTemplate}, name : Names \cup {NoName},
   slots : SUBSET Slots, was : TemplateRow \cup {NoRow}]

RowsOK ==
  /\ DOMAIN catalog \subseteq TemplateIds
  /\ \A i \in DOMAIN catalog : catalog[i] \in TemplateRow
  /\ creq \in [CatalogRequests -> CatalogRequest]

Naming(q)   == q.op = "create" \/ (q.op = "update" /\ q.name # NoName)
Checking(q) == q.step \in {"name", "write"}

\* What a request is about fits its step.
TargetOK(q) ==
  q.step # "free" =>
    /\ q.op # "none"
    /\ q.op = "create" => q.id = NoTemplate /\ q.name # NoName /\ q.step # "load"
    /\ q.op # "create" => q.id \in DOMAIN catalog
    /\ q.op # "create" /\ Checking(q) => q.was \in TemplateRow
    /\ q.step = "name" => Naming(q)

\* What a request has read still holds.
ReadOK(q) ==
  /\ q.op # "create" /\ Checking(q) => q.was = catalog[q.id]
  /\ Naming(q) /\ q.step = "write" => clashed \/ \A i \in Named(q.name) : i = q.id

CatalogInv ==
  /\ RowsOK
  /\ \A r \in CatalogRequests : TargetOK(creq[r])
  /\ \A r \in CatalogRequests \ contested : ReadOK(creq[r])
  /\ NamesAreUnique

LEMMA UnusedIsFree == Unused \in CatalogRequest /\ TargetOK(Unused) /\ ReadOK(Unused)
BY DEF Unused, CatalogRequest, NoRow, TargetOK, ReadOK, Checking

LEMMA CatalogInitInv == CatalogInit => CatalogInv
<1> SUFFICES ASSUME CatalogInit PROVE CatalogInv
  OBVIOUS
<1>1. RowsOK /\ NamesAreUnique
  BY UnusedIsFree DEF CatalogInit, RowsOK, NamesAreUnique
<1> QED
  BY <1>1, UnusedIsFree DEF CatalogInit, CatalogInv

\* A request goes on, and no row changes.
LEMMA RequestKeeps ==
  ASSUME CatalogInv, NEW r \in CatalogRequests, NEW q \in CatalogRequest,
         creq' = [creq EXCEPT ![r] = q], UNCHANGED <<catalog, clashed>>,
         contested' \in {contested, contested \ {r}},
         TargetOK(q), r \in contested' \/ ReadOK(q)
  PROVE  CatalogInv'
<1>1. creq'[r] = q /\ \A s \in CatalogRequests \ {r} : creq'[s] = creq[s]
  BY DEF CatalogInv, RowsOK
<1>2. RowsOK' /\ NamesAreUnique'
  BY DEF CatalogInv, RowsOK, NamesAreUnique
<1>3. ASSUME NEW s \in CatalogRequests PROVE TargetOK(creq[s])'
  BY <1>1 DEF CatalogInv, TargetOK, Checking, Naming
<1>4. ASSUME NEW s \in CatalogRequests \ contested' PROVE ReadOK(creq[s])'
  <2>1. s = r \/ s \in CatalogRequests \ contested
    OBVIOUS
  <2> QED
    BY <1>1, <2>1 DEF CatalogInv, ReadOK, Named, Checking, Naming
<1> QED
  BY <1>2, <1>3, <1>4 DEF CatalogInv

LEMMA AskKeeps ==
  ASSUME CatalogInv, NEW r \in CatalogRequests,
         NEW op \in CatalogOps, NEW id \in TemplateIds \cup {NoTemplate},
         NEW name \in Names \cup {NoName}, NEW slots \in SUBSET Slots, Ask(r, op, id, name, slots),
         op = "create" => id = NoTemplate /\ name # NoName,
         op # "create" => id \in DOMAIN catalog
  PROVE  CatalogInv'
<1> DEFINE q == [op |-> op, id |-> id, name |-> name, slots |-> slots,
                 step |-> IF op = "create" THEN "name" ELSE "load", was |-> NoRow]
<1>1. q \in CatalogRequest
  BY DEF CatalogRequest
<1>2. creq' = [creq EXCEPT ![r] = q] /\ contested' = contested \ {r} /\ UNCHANGED <<catalog, clashed>>
  BY DEF Ask
<1>3. TargetOK(q) /\ ReadOK(q)
  BY DEF TargetOK, ReadOK, Checking, Naming, CatalogOps
<1> HIDE DEF q
<1> QED
  BY <1>1, <1>2, <1>3, RequestKeeps

LEMMA RefuseKeeps ==
  ASSUME CatalogInv, NEW r \in CatalogRequests, Refuse(r), UNCHANGED <<catalog, contested, clashed>>
  PROVE  CatalogInv'
BY UnusedIsFree, RequestKeeps DEF Refuse

LEMMA LoadKeeps ==
  ASSUME CatalogInv, NEW r \in CatalogRequests, LoadTemplate(r)
  PROVE  CatalogInv'
<1> DEFINE row == catalog[creq[r].id]
           next == IF creq[r].op = "update" /\ creq[r].name # NoName THEN "name" ELSE "write"
           q == [creq[r] EXCEPT !.was = row, !.step = next]
<1>1. creq[r] \in CatalogRequest /\ creq[r].step = "load" /\ TargetOK(creq[r])
  BY DEF CatalogInv, RowsOK, LoadTemplate
<1>2. row \in TemplateRow
  BY <1>1 DEF CatalogInv, RowsOK, TargetOK
<1>3. CASE creq' = [creq EXCEPT ![r].was = row, ![r].step = next]
  <2>1. creq' = [creq EXCEPT ![r] = q] /\ UNCHANGED <<catalog, contested, clashed>>
    BY <1>3 DEF LoadTemplate, CatalogInv, RowsOK
  <2>2. /\ q \in CatalogRequest
        /\ q.op = creq[r].op /\ q.id = creq[r].id /\ q.name = creq[r].name
        /\ q.was = row /\ q.step = next
    BY <1>1, <1>2 DEF CatalogRequest
  <2>3. TargetOK(q)
    BY <1>1, <1>2, <2>2 DEF TargetOK, Checking, Naming
  <2>4. ReadOK(q)
    BY <1>1, <2>2 DEF TargetOK, ReadOK, Checking, Naming
  <2> HIDE DEF q
  <2> QED
    BY <2>1, <2>2, <2>3, <2>4, RequestKeeps
<1> QED
  BY <1>3, RefuseKeeps DEF LoadTemplate

LEMMA NameKeeps ==
  ASSUME CatalogInv, NEW r \in CatalogRequests, NameIsFree(r)
  PROVE  CatalogInv'
<1> DEFINE q == [creq[r] EXCEPT !.step = "write"]
<1>1. creq[r] \in CatalogRequest /\ creq[r].step = "name" /\ TargetOK(creq[r])
  BY DEF CatalogInv, RowsOK, NameIsFree
<1>2. creq' = [creq EXCEPT ![r] = q] /\ UNCHANGED <<catalog, contested, clashed>>
  BY DEF NameIsFree, CatalogInv, RowsOK
<1>3. /\ q \in CatalogRequest
      /\ q.op = creq[r].op /\ q.id = creq[r].id /\ q.name = creq[r].name
      /\ q.was = creq[r].was /\ q.step = "write"
  BY <1>1 DEF CatalogRequest
<1>4. TargetOK(q)
  BY <1>1, <1>3 DEF TargetOK, Checking, Naming
<1>5. r \in contested \/ ReadOK(q)
  <2>1. r \in contested \/ ReadOK(creq[r])
    BY DEF CatalogInv
  <2>2. clashed \/ \A i \in Named(creq[r].name) : i = creq[r].id
    BY DEF NameIsFree, Named, CatalogInv, NamesAreUnique
  <2> QED
    BY <1>1, <1>3, <2>1, <2>2 DEF ReadOK, Checking
<1> HIDE DEF q
<1> QED
  BY <1>2, <1>3, <1>4, <1>5, RequestKeeps

\* The commit: whoever else is under way is contested now.
LEMMA WriteKeeps ==
  ASSUME CatalogInv, NEW r \in CatalogRequests, NEW i \in TemplateIds, NEW row \in TemplateRow,
         Write(r, i, row),
         r \in contested \/ creq[r].op = "restore" \/ clashed \/ ~row.active
           \/ Named(row.name) \subseteq {i}
  PROVE  CatalogInv'
<1>1. /\ DOMAIN catalog' = DOMAIN catalog \cup {i} /\ catalog'[i] = row
      /\ \A j \in DOMAIN catalog \ {i} : catalog'[j] = catalog[j]
      /\ contested' = {q \in CatalogRequests \ {r} : q \in contested \/ creq[q].step # "free"}
      /\ clashed' = (clashed \/ (/\ r \in contested \/ creq[r].op = "restore"
                                 /\ Named(row.name) \ {i} # {}))
      /\ creq' = [creq EXCEPT ![r] = Unused]
  BY DEF Write, Refuse
<1>2. RowsOK'
  BY <1>1, UnusedIsFree DEF CatalogInv, RowsOK
<1>3. creq'[r] = Unused /\ \A s \in CatalogRequests \ {r} : creq'[s] = creq[s]
  BY <1>1 DEF CatalogInv, RowsOK
<1>4. ASSUME NEW s \in CatalogRequests PROVE TargetOK(creq[s])'
  BY <1>1, <1>3 DEF CatalogInv, TargetOK, Checking, Naming, Unused
<1>5. ASSUME NEW s \in CatalogRequests \ contested' PROVE ReadOK(creq[s])'
  <2>1. creq'[s].step = "free"
    BY <1>1, <1>3 DEF Unused
  <2> QED
    BY <2>1 DEF ReadOK, Checking
<1>6. NamesAreUnique'
  <2> SUFFICES ASSUME ~clashed', NEW j \in DOMAIN catalog', NEW k \in DOMAIN catalog',
                      catalog'[j].active, catalog'[k].active, catalog'[j].name = catalog'[k].name
               PROVE  j = k
    BY DEF NamesAreUnique
  <2>1. ~clashed /\ (row.active => Named(row.name) \subseteq {i})
    BY <1>1
  <2>2. CASE j # i /\ k # i
    BY <1>1, <2>1, <2>2 DEF CatalogInv, NamesAreUnique
  <2>3. CASE j = i \/ k = i
    BY <1>1, <2>1, <2>3 DEF Named
  <2> QED
    BY <2>2, <2>3
<1> QED
  BY <1>2, <1>4, <1>5, <1>6 DEF CatalogInv

LEMMA InsertKeeps ==
  ASSUME CatalogInv, NEW r \in CatalogRequests, InsertTemplate(r)
  PROVE  CatalogInv'
<1> PICK i \in TemplateIds \ DOMAIN catalog : Write(r, i, Wanted(r))
  BY DEF InsertTemplate
<1>1. creq[r].step = "write" /\ creq[r].op = "create" /\ creq[r] \in CatalogRequest /\ TargetOK(creq[r])
  BY DEF InsertTemplate, CatalogInv, RowsOK
<1>2. Wanted(r) = [name |-> creq[r].name, slots |-> creq[r].slots, active |-> TRUE]
  BY <1>1 DEF Wanted
<1>3. Wanted(r) \in TemplateRow
  BY <1>1, <1>2 DEF CatalogRequest, TemplateRow, TargetOK
<1>4. r \in contested \/ clashed \/ Named(Wanted(r).name) = {}
  <2>1. r \in contested \/ clashed \/ \A j \in Named(creq[r].name) : j = NoTemplate
    BY <1>1 DEF CatalogInv, ReadOK, Naming, TargetOK
  <2>2. Named(creq[r].name) \subseteq TemplateIds
    BY DEF Named, CatalogInv, RowsOK
  <2> QED
    BY <1>2, <2>1, <2>2, CatalogAssumption
<1> QED
  BY <1>3, <1>4, WriteKeeps

LEMMA UpdateKeeps ==
  ASSUME CatalogInv, NEW r \in CatalogRequests, UpdateTemplate(r)
  PROVE  CatalogInv'
<1> DEFINE i   == creq[r].id
           was == creq[r].was
           new == Wanted(r)
           row == Merged(catalog[i], was, new)
<1>1. /\ creq[r].step = "write" /\ creq[r].op # "create" /\ Write(r, i, row)
      /\ creq[r] \in CatalogRequest /\ TargetOK(creq[r])
  BY DEF UpdateTemplate, CatalogInv, RowsOK
<1>2. /\ i \in DOMAIN catalog /\ i \in TemplateIds /\ catalog[i] \in TemplateRow /\ was \in TemplateRow
      /\ creq[r].op \in {"update", "delete", "restore"}
  BY <1>1 DEF TargetOK, Checking, CatalogInv, RowsOK, CatalogRequest, CatalogOps
<1>3. /\ creq[r].op = "update" => /\ new.name = IF creq[r].name = NoName THEN was.name ELSE creq[r].name
                                  /\ new.slots = creq[r].slots /\ new.active = was.active
      /\ creq[r].op = "delete" => new.name = was.name /\ new.slots = was.slots /\ new.active = FALSE
      /\ creq[r].op = "restore" => new.name = was.name /\ new.slots = was.slots /\ new.active = TRUE
  BY <1>1, <1>2 DEF Wanted, TemplateRow
<1>4. /\ row.name = IF new.name # was.name THEN new.name ELSE catalog[i].name
      /\ row.slots = IF new.slots # was.slots THEN new.slots ELSE catalog[i].slots
      /\ row.active = IF new.active # was.active THEN new.active ELSE catalog[i].active
      /\ row = [name |-> row.name, slots |-> row.slots, active |-> row.active]
  BY <1>2 DEF Merged, TemplateRow
<1>5. row \in TemplateRow
  BY <1>1, <1>2, <1>3, <1>4 DEF TemplateRow, CatalogRequest
<1>6. \/ r \in contested \/ creq[r].op = "restore" \/ clashed \/ ~row.active
      \/ Named(row.name) \subseteq {i}
  <2> SUFFICES ASSUME r \notin contested, ~clashed, creq[r].op # "restore", row.active
               PROVE  Named(row.name) \subseteq {i}
    OBVIOUS
  <2>1. ReadOK(creq[r])
    BY DEF CatalogInv
  <2>2. was = catalog[i]
    BY <1>1, <2>1 DEF ReadOK, Checking
  <2>3. creq[r].op = "update"
    BY <1>2, <1>3, <1>4, <2>2
  <2>4. CASE creq[r].name = NoName
    <3>1. row.name = catalog[i].name /\ catalog[i].active
      BY <1>3, <1>4, <2>2, <2>3, <2>4
    <3> QED
      BY <1>2, <3>1 DEF CatalogInv, NamesAreUnique, Named
  <2>5. CASE creq[r].name # NoName
    <3>1. row.name = creq[r].name
      BY <1>3, <1>4, <2>2, <2>3, <2>5
    <3> QED
      BY <1>1, <2>1, <2>3, <2>5, <3>1 DEF ReadOK, Naming
  <2> QED
    BY <2>4, <2>5
<1> HIDE DEF row
<1> QED
  BY <1>1, <1>2, <1>5, <1>6, WriteKeeps

LEMMA CatalogStepInv == CatalogInv /\ [CatalogNext]_catalogVars => CatalogInv'
<1> SUFFICES ASSUME CatalogInv, [CatalogNext]_catalogVars PROVE CatalogInv'
  OBVIOUS
<1>1. ASSUME NEW r \in CatalogRequests, CatalogStep(r) PROVE CatalogInv'
  <2>1. CASE AskCreate(r)
    <3>1. PICK data \in TemplateCreate : Ask(r, "create", NoTemplate, data.name, data.slots)
      BY <2>1 DEF AskCreate
    <3>2. data.name \in Names /\ data.name # NoName /\ data.slots \in SUBSET Slots
      BY CatalogAssumption DEF TemplateCreate
    <3> QED
      BY <3>1, <3>2, AskKeeps DEF CatalogOps
  <2>2. CASE AskUpdate(r)
    <3>1. PICK i \in DOMAIN catalog, data \in TemplateUpdate : Ask(r, "update", i, data.name, data.slots)
      BY <2>2 DEF AskUpdate
    <3>2. i \in TemplateIds /\ data.name \in Names \cup {NoName} /\ data.slots \in SUBSET Slots
      BY DEF TemplateUpdate, CatalogInv, RowsOK
    <3> QED
      BY <3>1, <3>2, AskKeeps DEF CatalogOps
  <2>3. CASE AskDelete(r) \/ AskRestore(r)
    <3>1. PICK i \in DOMAIN catalog, op \in {"delete", "restore"} : Ask(r, op, i, NoName, {})
      BY <2>3 DEF AskDelete, AskRestore
    <3>2. i \in TemplateIds /\ op \in CatalogOps
      BY DEF CatalogInv, RowsOK, CatalogOps
    <3> QED
      BY <3>1, <3>2, AskKeeps
  <2>4. CASE NameIsTaken(r)
    BY <2>4, RefuseKeeps DEF NameIsTaken
  <2> QED
    BY <1>1, <2>1, <2>2, <2>3, <2>4, LoadKeeps, NameKeeps, InsertKeeps, UpdateKeeps DEF CatalogStep
<1>2. CASE UNCHANGED catalogVars
  BY <1>2 DEF catalogVars, CatalogInv, RowsOK, TargetOK, ReadOK, NamesAreUnique, Named, Checking, Naming
<1> QED
  BY <1>1, <1>2 DEF CatalogNext

LEMMA CatalogInductive == CatalogSpec => []CatalogInv
  BY CatalogInitInv, CatalogStepInv, PTL DEF CatalogSpec

\* Active templates have different names, until a restore or a contested write
\* brings two of a name together (templates/service.py:22-33, 57-61, 77-84).
THEOREM TemplateNamesUnique == CatalogSpec => []NamesAreUnique
<1>1. CatalogInv => NamesAreUnique
  BY DEF CatalogInv
<1> QED
  BY <1>1, CatalogInductive, PTL

-----------------------------------------------------------------------------
(* Quotas *)

IntakeRequest ==
  [op : IntakeOps, step : IntakeSteps, by : Callers \cup {NoTask}, task : TaskIds \cup {NoTask},
   form : Order \cup {NoOrder}, was : Order \cup {NoOrder}]

OrdersOK ==
  /\ DOMAIN orders \subseteq TaskIds
  /\ \A t \in DOMAIN orders : orders[t] \in Order
  /\ ireq \in [IntakeRequests -> IntakeRequest]

\* What a request has in hand fits its step.
InHand(q) ==
  /\ q.step # "free" => q.form \in Order
  /\ q.step \in {"phone", "user", "insert"} => q.by = q.form.by
  /\ q.step \in {"slots", "write"} =>
       q.task \in DOMAIN orders /\ q.was \in Order /\ q.form.by = q.was.by

PastPhone(q) == q.step \in {"user", "insert"}

\* The requests that have counted the tasks of a phone, or of a user, and will
\* insert one.
PhoneWaits(phone) == {r \in IntakeRequests : PastPhone(ireq[r]) /\ ireq[r].form.phone = phone}
UserWaits(u)      == {r \in IntakeRequests : ireq[r].step = "insert" /\ ireq[r].by = u}

Bounded(T, K, max) == Cardinality(T) + Cardinality(K) <= max - 1 + Concurrent

QuotaInv ==
  /\ \A phone \in Phones :
       Bounded(OfPhone(phone) \ moved, PhoneWaits(phone), MAX_CALLS_PER_PHONE_PER_DAY)
  /\ \A u \in Callers \ Admins : Bounded(OfUser(u), UserWaits(u), MAX_CALLS_PER_USER_PER_DAY)

IntakeInv ==
  /\ OrdersOK
  /\ \A r \in IntakeRequests : InHand(ireq[r])
  /\ QuotaInv

\* Fewer tasks and fewer requests keep a bound.
LEMMA BoundShrinks ==
  ASSUME NEW T \in SUBSET TaskIds, NEW K \in SUBSET IntakeRequests, NEW max \in Nat,
         Bounded(T, K, max), NEW T2 \in SUBSET T, NEW K2 \in SUBSET K
  PROVE  Bounded(T2, K2, max)
<1>1. IsFiniteSet(T) /\ IsFiniteSet(K) /\ IsFiniteSet(IntakeRequests)
  BY FS_Subset, IntakeAssumption
<1>2. IsFiniteSet(T2) /\ IsFiniteSet(K2) /\ Cardinality(T2) <= Cardinality(T) /\ Cardinality(K2) <= Cardinality(K)
  BY <1>1, FS_Subset
<1> QED
  BY <1>1, <1>2, FS_CardinalityType DEF Bounded, Concurrent

\* Whoever counts fewer tasks than allowed leaves room for all requests.
LEMMA BoundAdmits ==
  ASSUME NEW T \in SUBSET TaskIds, NEW K \in SUBSET IntakeRequests, NEW max \in Nat, Cardinality(T) < max,
         NEW T2 \in SUBSET T
  PROVE  Bounded(T2, K, max)
<1>1. IsFiniteSet(T) /\ IsFiniteSet(IntakeRequests)
  BY FS_Subset, IntakeAssumption
<1>2. IsFiniteSet(T2) /\ IsFiniteSet(K) /\ Cardinality(T2) <= Cardinality(T) /\ Cardinality(K) <= Cardinality(IntakeRequests)
  BY <1>1, FS_Subset
<1> QED
  BY <1>1, <1>2, FS_CardinalityType DEF Bounded, Concurrent

\* A request that waited turns into the task that it inserts.
LEMMA BoundInserts ==
  ASSUME NEW T \in SUBSET TaskIds, NEW K \in SUBSET IntakeRequests, NEW max \in Nat, Bounded(T, K, max),
         NEW t \in TaskIds, NEW r \in K, NEW T2 \in SUBSET (T \cup {t}), NEW K2 \in SUBSET (K \ {r})
  PROVE  Bounded(T2, K2, max)
<1>1. IsFiniteSet(T) /\ IsFiniteSet(K) /\ IsFiniteSet(IntakeRequests)
  BY FS_Subset, IntakeAssumption
<1>2. IsFiniteSet(T \cup {t}) /\ Cardinality(T \cup {t}) <= Cardinality(T) + 1
  <2>1. Cardinality(T) \in Nat
    BY <1>1, FS_CardinalityType
  <2>2. IsFiniteSet(T \cup {t}) /\ Cardinality(T \cup {t}) = IF t \in T THEN Cardinality(T) ELSE Cardinality(T) + 1
    BY <1>1, FS_AddElement
  <2> QED
    BY <2>1, <2>2
<1>3. IsFiniteSet(K \ {r}) /\ Cardinality(K \ {r}) = Cardinality(K) - 1
  BY <1>1, FS_RemoveElement
<1>4. Cardinality(T2) <= Cardinality(T \cup {t}) /\ Cardinality(K2) <= Cardinality(K \ {r}) /\ IsFiniteSet(T2) /\ IsFiniteSet(K2)
  BY <1>2, <1>3, FS_Subset
<1> QED
  BY <1>1, <1>2, <1>3, <1>4, FS_CardinalityType DEF Bounded, Concurrent

LEMMA VacantFits == Vacant \in IntakeRequest /\ InHand(Vacant) /\ Vacant.step = "free"
BY DEF Vacant, IntakeRequest, InHand, IntakeOps, IntakeSteps

LEMMA SetsFit ==
  ASSUME OrdersOK
  PROVE  /\ \A phone : OfPhone(phone) \in SUBSET TaskIds /\ OfPhone(phone) \ moved \in SUBSET TaskIds
         /\ \A u : OfUser(u) \in SUBSET TaskIds
         /\ \A phone : PhoneWaits(phone) \in SUBSET IntakeRequests
         /\ \A u : UserWaits(u) \in SUBSET IntakeRequests
         /\ MAX_CALLS_PER_PHONE_PER_DAY \in Nat /\ MAX_CALLS_PER_USER_PER_DAY \in Nat
BY IntakeAssumption DEF OrdersOK, OfPhone, OfUser, PhoneWaits, UserWaits

LEMMA IntakeInitInv == IntakeInit => IntakeInv
<1> SUFFICES ASSUME IntakeInit PROVE IntakeInv
  OBVIOUS
<1>1. OrdersOK /\ \A r \in IntakeRequests : ireq[r] = Vacant
  BY VacantFits DEF IntakeInit, OrdersOK
<1>2. \A x : OfPhone(x) = {} /\ OfUser(x) = {}
  BY DEF IntakeInit, OfPhone, OfUser
<1>3. Cardinality({}) = 0
  BY FS_EmptySet
<1>4. QuotaInv
  <2>1. MAX_CALLS_PER_PHONE_PER_DAY > 0 /\ MAX_CALLS_PER_USER_PER_DAY > 0
    BY IntakeAssumption
  <2>2. ASSUME NEW phone \in Phones
        PROVE  Bounded(OfPhone(phone) \ moved, PhoneWaits(phone), MAX_CALLS_PER_PHONE_PER_DAY)
    <3>1. OfPhone(phone) \ moved = {}
      BY <1>2
    <3> QED
      BY <1>1, <1>3, <2>1, <3>1, SetsFit, BoundAdmits
  <2>3. ASSUME NEW u \in Callers \ Admins
        PROVE  Bounded(OfUser(u), UserWaits(u), MAX_CALLS_PER_USER_PER_DAY)
    BY <1>1, <1>2, <1>3, <2>1, SetsFit, BoundAdmits
  <2> QED
    BY <2>2, <2>3 DEF QuotaInv
<1> QED
  BY <1>1, <1>4, VacantFits DEF IntakeInv

\* A request goes on, and no task changes.
LEMMA StepKeeps ==
  ASSUME IntakeInv, NEW r \in IntakeRequests, NEW q \in IntakeRequest,
         ireq' = [ireq EXCEPT ![r] = q], UNCHANGED <<orders, moved>>, InHand(q),
         PastPhone(q) => \/ PhoneMayBeCalled(q.form.phone)
                         \/ PastPhone(ireq[r]) /\ ireq[r].form.phone = q.form.phone,
         q.step = "insert" => q.by \in Admins \/ UserMayCreate(q.by)
  PROVE  IntakeInv'
<1>1. ireq'[r] = q /\ \A s \in IntakeRequests \ {r} : ireq'[s] = ireq[s]
  BY DEF IntakeInv, OrdersOK
<1>2. OrdersOK' /\ OrdersOK
  BY DEF IntakeInv, OrdersOK
<1>3. ASSUME NEW s \in IntakeRequests PROVE InHand(ireq[s])'
  BY <1>1 DEF IntakeInv, InHand
<1>4. ASSUME NEW phone \in Phones
      PROVE  Bounded(OfPhone(phone) \ moved, PhoneWaits(phone), MAX_CALLS_PER_PHONE_PER_DAY)'
  <2>1. (OfPhone(phone) \ moved)' = OfPhone(phone) \ moved /\ PhoneWaits(phone)' \in SUBSET IntakeRequests
    BY DEF OfPhone, PhoneWaits
  <2>2. CASE PhoneWaits(phone)' \subseteq PhoneWaits(phone)
    <3>1. Bounded(OfPhone(phone) \ moved, PhoneWaits(phone), MAX_CALLS_PER_PHONE_PER_DAY)
      BY DEF IntakeInv, QuotaInv
    <3>2. Bounded(OfPhone(phone) \ moved, PhoneWaits(phone)', MAX_CALLS_PER_PHONE_PER_DAY)
      BY <1>2, <2>2, <3>1, SetsFit, BoundShrinks
    <3> QED
      BY <2>1, <3>2 DEF Bounded, Concurrent
  <2>3. CASE ~(PhoneWaits(phone)' \subseteq PhoneWaits(phone))
    <3>1. PastPhone(q) /\ q.form.phone = phone /\ ~(PastPhone(ireq[r]) /\ ireq[r].form.phone = phone)
      BY <1>1, <2>3 DEF PhoneWaits, PastPhone
    <3>2. Cardinality(OfPhone(phone)) < MAX_CALLS_PER_PHONE_PER_DAY
      BY <3>1 DEF PhoneMayBeCalled
    <3>3. Bounded(OfPhone(phone) \ moved, PhoneWaits(phone)', MAX_CALLS_PER_PHONE_PER_DAY)
      BY <1>2, <2>1, <3>2, SetsFit, BoundAdmits
    <3> QED
      BY <2>1, <3>3 DEF Bounded, Concurrent
  <2> QED
    BY <2>2, <2>3
<1>5. ASSUME NEW u \in Callers \ Admins
      PROVE  Bounded(OfUser(u), UserWaits(u), MAX_CALLS_PER_USER_PER_DAY)'
  <2>1. OfUser(u)' = OfUser(u) /\ UserWaits(u)' \in SUBSET IntakeRequests
    BY DEF OfUser, UserWaits
  <2>2. CASE UserWaits(u)' \subseteq UserWaits(u)
    <3>1. Bounded(OfUser(u), UserWaits(u), MAX_CALLS_PER_USER_PER_DAY)
      BY DEF IntakeInv, QuotaInv
    <3>2. Bounded(OfUser(u), UserWaits(u)', MAX_CALLS_PER_USER_PER_DAY)
      BY <1>2, <2>2, <3>1, SetsFit, BoundShrinks
    <3> QED
      BY <2>1, <3>2 DEF Bounded, Concurrent
  <2>3. CASE ~(UserWaits(u)' \subseteq UserWaits(u))
    <3>1. q.step = "insert" /\ q.by = u
      BY <1>1, <2>3 DEF UserWaits
    <3>2. Cardinality(OfUser(u)) < MAX_CALLS_PER_USER_PER_DAY
      BY <3>1 DEF UserMayCreate
    <3>3. Bounded(OfUser(u), UserWaits(u)', MAX_CALLS_PER_USER_PER_DAY)
      BY <1>2, <2>1, <3>2, SetsFit, BoundAdmits
    <3> QED
      BY <2>1, <3>3 DEF Bounded, Concurrent
  <2> QED
    BY <2>2, <2>3
<1> QED
  BY <1>2, <1>3, <1>4, <1>5 DEF IntakeInv, QuotaInv

LEMMA ReplyKeeps ==
  ASSUME IntakeInv, NEW r \in IntakeRequests, Reply(r), UNCHANGED <<orders, moved>>
  PROVE  IntakeInv'
BY VacantFits, StepKeeps DEF Reply, PastPhone

LEMMA AdvanceKeeps ==
  ASSUME IntakeInv, NEW r \in IntakeRequests, NEW step \in {"user", "insert", "write"},
         Advance(r, step), UNCHANGED <<orders, moved>>,
         ireq[r].step \in IF step = "write" THEN {"slots"} ELSE {"phone", "user"},
         step # "write" => \/ PhoneMayBeCalled(ireq[r].form.phone)
                           \/ ireq[r].step = "user",
         step = "insert" => ireq[r].by \in Admins \/ UserMayCreate(ireq[r].by)
  PROVE  IntakeInv'
<1> DEFINE q == [ireq[r] EXCEPT !.step = step]
<1>1. ireq[r] \in IntakeRequest /\ InHand(ireq[r])
  BY DEF IntakeInv, OrdersOK
<1>2. ireq' = [ireq EXCEPT ![r] = q]
  BY DEF Advance, IntakeInv, OrdersOK
<1>3. /\ q \in IntakeRequest
      /\ q.step = step /\ q.by = ireq[r].by /\ q.task = ireq[r].task
      /\ q.form = ireq[r].form /\ q.was = ireq[r].was
  BY <1>1 DEF IntakeRequest, IntakeSteps
<1>4. InHand(q)
  BY <1>1, <1>3 DEF InHand
<1> HIDE DEF q
<1> QED
  BY <1>2, <1>3, <1>4, StepKeeps DEF PastPhone


\* Rows keep their user, and their phone unless they are moved; rows may go.
LEMMA RowsKeep ==
  ASSUME IntakeInv, OrdersOK', \A s \in IntakeRequests : ireq'[s] = ireq[s] \/ ireq'[s] = Vacant,
         DOMAIN orders' \subseteq DOMAIN orders, moved \subseteq moved',
         \A s \in IntakeRequests : ireq'[s].task \in DOMAIN orders => ireq'[s].task \in DOMAIN orders',
         \A t \in DOMAIN orders' : orders'[t].by = orders[t].by
                                   /\ (t \in moved' \/ orders'[t].phone = orders[t].phone)
  PROVE  IntakeInv'
<1>2. ASSUME NEW s \in IntakeRequests PROVE InHand(ireq[s])'
  BY VacantFits DEF IntakeInv, InHand
<1>3. ASSUME NEW phone \in Phones
      PROVE  Bounded(OfPhone(phone) \ moved, PhoneWaits(phone), MAX_CALLS_PER_PHONE_PER_DAY)'
  <2>1. (OfPhone(phone) \ moved)' \subseteq OfPhone(phone) \ moved
    BY DEF OfPhone
  <2>2. PhoneWaits(phone)' \subseteq PhoneWaits(phone)
    BY VacantFits DEF PhoneWaits, PastPhone
  <2>3. Bounded(OfPhone(phone) \ moved, PhoneWaits(phone), MAX_CALLS_PER_PHONE_PER_DAY) /\ OrdersOK
    BY DEF IntakeInv, QuotaInv
  <2>4. Bounded((OfPhone(phone) \ moved)', PhoneWaits(phone)', MAX_CALLS_PER_PHONE_PER_DAY)
    BY <2>1, <2>2, <2>3, SetsFit, BoundShrinks
  <2> QED
    BY <2>4 DEF Bounded, Concurrent
<1>4. ASSUME NEW u \in Callers \ Admins
      PROVE  Bounded(OfUser(u), UserWaits(u), MAX_CALLS_PER_USER_PER_DAY)'
  <2>1. OfUser(u)' \subseteq OfUser(u)
    BY DEF OfUser
  <2>2. UserWaits(u)' \subseteq UserWaits(u)
    BY VacantFits DEF UserWaits
  <2>3. Bounded(OfUser(u), UserWaits(u), MAX_CALLS_PER_USER_PER_DAY) /\ OrdersOK
    BY DEF IntakeInv, QuotaInv
  <2>4. Bounded(OfUser(u)', UserWaits(u)', MAX_CALLS_PER_USER_PER_DAY)
    BY <2>1, <2>2, <2>3, SetsFit, BoundShrinks
  <2> QED
    BY <2>4 DEF Bounded, Concurrent
<1> QED
  BY <1>2, <1>3, <1>4 DEF IntakeInv, QuotaInv

\* What an edit or a rating commits, over what is there now.
LEMMA MergedRow ==
  ASSUME NEW now \in Order, NEW was \in Order, NEW new \in Order, new.by = was.by
  PROVE  Merged(now, was, new) \in Order /\ Merged(now, was, new).by = now.by
<1> DEFINE row == Merged(now, was, new)
           Pick(a, b, c) == IF c # b THEN c ELSE a
<1>1. row = [phone |-> Pick(now.phone, was.phone, new.phone), by |-> Pick(now.by, was.by, new.by),
             template |-> Pick(now.template, was.template, new.template),
             slots |-> Pick(now.slots, was.slots, new.slots),
             status |-> Pick(now.status, was.status, new.status),
             time |-> Pick(now.time, was.time, new.time), rated |-> Pick(now.rated, was.rated, new.rated)]
  BY DEF Merged, Order
<1> QED
  BY <1>1 DEF Order

LEMMA WriteTaskKeeps ==
  ASSUME IntakeInv, NEW r \in IntakeRequests, WriteTask(r)
  PROVE  IntakeInv'
<1> DEFINE t == ireq[r].task
           row == Merged(orders[t], ireq[r].was, ireq[r].form)
<1>1. /\ t \in DOMAIN orders /\ t \in TaskIds /\ orders[t] \in Order
      /\ ireq[r].was \in Order /\ ireq[r].form \in Order /\ ireq[r].form.by = ireq[r].was.by
  BY DEF WriteTask, Stands, IntakeInv, InHand, OrdersOK
<1>2. row \in Order /\ row.by = orders[t].by
  BY <1>1, MergedRow
<1>3. /\ orders' = [orders EXCEPT ![t] = row]
      /\ moved' = IF row.phone # orders[t].phone THEN moved \cup {t} ELSE moved
      /\ ireq' = [ireq EXCEPT ![r] = Vacant]
  BY DEF WriteTask, Reply
<1> HIDE DEF row
<1>4. OrdersOK'
  BY <1>1, <1>2, <1>3, VacantFits DEF IntakeInv, OrdersOK
<1>5. \A k \in DOMAIN orders' : orders'[k].by = orders[k].by
                                /\ (k \in moved' \/ orders'[k].phone = orders[k].phone)
  BY <1>1, <1>2, <1>3
<1>6. \A s \in IntakeRequests : ireq'[s] = ireq[s] \/ ireq'[s] = Vacant
  BY <1>3 DEF IntakeInv, OrdersOK
<1> QED
  BY <1>3, <1>4, <1>5, <1>6, RowsKeep

LEMMA InsertTaskKeeps ==
  ASSUME IntakeInv, NEW r \in IntakeRequests, InsertTask(r)
  PROVE  IntakeInv'
<1> DEFINE t == CHOOSE k \in TaskIds \ DOMAIN orders : TRUE
           form == ireq[r].form
<1>1. t \in TaskIds \ DOMAIN orders
  BY DEF InsertTask
<1>2. /\ orders' = [k \in DOMAIN orders \cup {t} |-> IF k = t THEN form ELSE orders[k]]
      /\ moved' = moved \ {t} /\ ireq' = [ireq EXCEPT ![r] = Vacant] /\ ireq[r].step = "insert"
  BY DEF InsertTask, Reply, Stands
<1> HIDE DEF t
<1>3. form \in Order /\ ireq[r].by = form.by
  BY <1>2 DEF IntakeInv, InHand
<1>4. ireq'[r] = Vacant /\ \A s \in IntakeRequests \ {r} : ireq'[s] = ireq[s]
  BY <1>2 DEF IntakeInv, OrdersOK
<1>5. OrdersOK' /\ OrdersOK
  BY <1>1, <1>2, <1>3, VacantFits DEF IntakeInv, OrdersOK
<1>6. ASSUME NEW s \in IntakeRequests PROVE InHand(ireq[s])'
  BY <1>2, <1>4, VacantFits DEF IntakeInv, InHand
<1>7. ASSUME NEW phone \in Phones
      PROVE  Bounded(OfPhone(phone) \ moved, PhoneWaits(phone), MAX_CALLS_PER_PHONE_PER_DAY)'
  <2> DEFINE T == OfPhone(phone) \ moved
             K == PhoneWaits(phone)
  <2>1. Bounded(T, K, MAX_CALLS_PER_PHONE_PER_DAY) /\ T \in SUBSET TaskIds /\ K \in SUBSET IntakeRequests
    BY <1>5, SetsFit DEF IntakeInv, QuotaInv
  <2>2. K' \subseteq K \ {r}
    BY <1>4, VacantFits DEF PhoneWaits, PastPhone
  <2>3. T' \subseteq T \cup {t} /\ (form.phone # phone => T' \subseteq T)
    BY <1>1, <1>2 DEF OfPhone
  <2>4. form.phone = phone => r \in K
    BY <1>2 DEF PhoneWaits, PastPhone
  <2> HIDE DEF T, K
  <2>5. Bounded(T', K', MAX_CALLS_PER_PHONE_PER_DAY)
    <3>1. CASE form.phone = phone
      BY <1>1, <1>5, <2>1, <2>2, <2>3, <2>4, <3>1, SetsFit, BoundInserts
    <3>2. CASE form.phone # phone
      BY <1>5, <2>1, <2>2, <2>3, <3>2, SetsFit, BoundShrinks
    <3> QED
      BY <3>1, <3>2
  <2> QED
    BY <2>5 DEF Bounded, Concurrent, T, K
<1>8. ASSUME NEW u \in Callers \ Admins
      PROVE  Bounded(OfUser(u), UserWaits(u), MAX_CALLS_PER_USER_PER_DAY)'
  <2> DEFINE T == OfUser(u)
             K == UserWaits(u)
  <2>1. Bounded(T, K, MAX_CALLS_PER_USER_PER_DAY) /\ T \in SUBSET TaskIds /\ K \in SUBSET IntakeRequests
    BY <1>5, SetsFit DEF IntakeInv, QuotaInv
  <2>2. K' \subseteq K \ {r}
    BY <1>4, VacantFits DEF UserWaits
  <2>3. T' \subseteq T \cup {t} /\ (form.by # u => T' \subseteq T)
    BY <1>1, <1>2 DEF OfUser
  <2>4. form.by = u => r \in K
    BY <1>2, <1>3 DEF UserWaits
  <2> HIDE DEF T, K
  <2>5. Bounded(T', K', MAX_CALLS_PER_USER_PER_DAY)
    <3>1. CASE form.by = u
      BY <1>1, <1>5, <2>1, <2>2, <2>3, <2>4, <3>1, SetsFit, BoundInserts
    <3>2. CASE form.by # u
      BY <1>5, <2>1, <2>2, <2>3, <3>2, SetsFit, BoundShrinks
    <3> QED
      BY <3>1, <3>2
  <2> QED
    BY <2>5 DEF Bounded, Concurrent, T, K
<1> QED
  BY <1>5, <1>6, <1>7, <1>8 DEF IntakeInv, QuotaInv


LEMMA CreateKeeps ==
  ASSUME IntakeInv, NEW r \in IntakeRequests, Create(r) \/ Duplicate(r) \/ DuplicateTemplate(r)
  PROVE  IntakeInv'
<1>1. UNCHANGED <<orders, moved>> /\ OrdersOK
  BY DEF Create, Duplicate, DuplicateTemplate, otherVars, historyVars, IntakeInv
<1>2. ASSUME NEW u \in Callers, NEW phone \in Phones, NEW i \in TemplateIds, NEW slots \in SUBSET Slots,
             NEW time \in Instants \cup {NoTime}
      PROVE  /\ Form(u, [phone |-> phone, template |-> i, slots |-> slots, time |-> time]) \in Order
             /\ Form(u, [phone |-> phone, template |-> i, slots |-> slots, time |-> time]).by = u
  BY DEF Form, Order, Open, StatusFor
\* The template has been read.
<1>3. ASSUME NEW op \in {"create", "duplicate"}, NEW form \in Order, TemplateRead(r, op, form)
      PROVE  IntakeInv'
  <2> DEFINE q == [op |-> op, step |-> "phone", by |-> form.by, task |-> NoTask,
                   form |-> form, was |-> NoOrder]
  <2>1. ireq' = [ireq EXCEPT ![r] = q]
    BY <1>3 DEF TemplateRead
  <2>2. q \in IntakeRequest /\ InHand(q) /\ ~PastPhone(q) /\ q.step # "insert"
    BY DEF IntakeRequest, IntakeOps, IntakeSteps, Order, InHand, PastPhone
  <2> HIDE DEF q
  <2> QED
    BY <1>1, <2>1, <2>2, StepKeeps
<1>4. CASE Create(r)
  <2>1. PICK u \in Callers, data \in TaskCreate : TemplateRead(r, "create", Form(u, data))
    BY <1>4 DEF Create
  <2>2. Form(u, data) \in Order
    BY DEF TaskCreate, Form, Order, Open, StatusFor
  <2> QED
    BY <1>3, <2>1, <2>2
<1>5. CASE Duplicate(r)
  <2>1. PICK u \in Callers, data \in TaskDuplicateRequest : \E t \in Visible(u) :
          ireq' = [ireq EXCEPT ![r] =
            [op |-> "duplicate", step |-> "template", by |-> u, task |-> t,
             form |-> Form(u, [phone |-> data.phone, template |-> orders[t].template,
                               slots |-> orders[t].slots, time |-> data.time]), was |-> NoOrder]]
    BY <1>5 DEF Duplicate
  <2> PICK t \in Visible(u) :
          ireq' = [ireq EXCEPT ![r] =
            [op |-> "duplicate", step |-> "template", by |-> u, task |-> t,
             form |-> Form(u, [phone |-> data.phone, template |-> orders[t].template,
                               slots |-> orders[t].slots, time |-> data.time]), was |-> NoOrder]]
    BY <2>1
  <2> DEFINE form == Form(u, [phone |-> data.phone, template |-> orders[t].template,
                              slots |-> orders[t].slots, time |-> data.time])
             q == [op |-> "duplicate", step |-> "template", by |-> u, task |-> t,
                   form |-> form, was |-> NoOrder]
  <2>2. t \in TaskIds /\ orders[t] \in Order /\ data.phone \in Phones /\ data.time \in Instants \cup {NoTime}
    BY <1>1 DEF OrdersOK, Visible, TaskDuplicateRequest
  <2>3. form \in Order
    BY <1>2, <2>2 DEF Order
  <2>4. ireq' = [ireq EXCEPT ![r] = q]
    OBVIOUS
  <2> HIDE DEF form
  <2>5. q \in IntakeRequest /\ InHand(q) /\ ~PastPhone(q) /\ q.step # "insert"
    BY <2>2, <2>3 DEF IntakeRequest, IntakeOps, IntakeSteps, InHand, PastPhone
  <2> HIDE DEF q
  <2> QED
    BY <1>1, <2>4, <2>5, StepKeeps
<1>6. CASE DuplicateTemplate(r)
  <2>1. ireq[r].form \in Order
    BY <1>6 DEF DuplicateTemplate, Stands, IntakeInv, InHand
  <2> QED
    BY <1>1, <1>3, <1>6, <2>1, ReplyKeeps DEF DuplicateTemplate
<1> QED
  BY <1>4, <1>5, <1>6

LEMMA CountKeeps ==
  ASSUME IntakeInv, NEW r \in IntakeRequests, CountPhone(r) \/ CountUser(r)
  PROVE  IntakeInv'
<1>1. UNCHANGED <<orders, moved>>
  BY DEF CountPhone, CountUser, otherVars, historyVars
<1>2. CASE CountPhone(r)
  <2>1. CASE PhoneMayBeCalled(ireq[r].form.phone)
    BY <1>1, <1>2, <2>1, AdvanceKeeps DEF CountPhone, Stands
  <2> QED
    BY <1>1, <1>2, <2>1, ReplyKeeps DEF CountPhone
<1>3. CASE CountUser(r)
  <2>1. CASE UserMayCreate(ireq[r].by)
    BY <1>1, <1>3, <2>1, AdvanceKeeps DEF CountUser, Stands
  <2> QED
    BY <1>1, <1>3, <2>1, ReplyKeeps DEF CountUser
<1> QED
  BY <1>2, <1>3

\* Edits and ratings, up to their commit.
LEMMA LoadedKeeps ==
  ASSUME IntakeInv, NEW r \in IntakeRequests, NEW op \in {"edit", "rate"}, NEW u \in Callers,
         NEW t \in DOMAIN orders, NEW step \in {"slots", "write"}, NEW form \in Order,
         form.by = orders[t].by, Loaded(r, op, u, t, step, form), UNCHANGED <<orders, moved>>
  PROVE  IntakeInv'
<1> DEFINE q == [op |-> op, step |-> step, by |-> u, task |-> t, form |-> form, was |-> orders[t]]
<1>1. ireq' = [ireq EXCEPT ![r] = q]
  BY DEF Loaded
<1>2. t \in TaskIds /\ orders[t] \in Order
  BY DEF IntakeInv, OrdersOK
<1>3. q \in IntakeRequest /\ InHand(q) /\ ~PastPhone(q) /\ q.step # "insert"
  BY <1>2 DEF IntakeRequest, IntakeOps, IntakeSteps, InHand, PastPhone
<1> HIDE DEF q
<1> QED
  BY <1>1, <1>3, StepKeeps

LEMMA EditKeeps ==
  ASSUME IntakeInv, NEW r \in IntakeRequests, Edit(r) \/ CheckSlots(r) \/ Rate(r)
  PROVE  IntakeInv'
<1>1. UNCHANGED <<orders, moved>> /\ OrdersOK
  BY DEF Edit, CheckSlots, Rate, otherVars, historyVars, IntakeInv
<1>2. CASE Edit(r)
  <2> PICK u \in Callers, data \in TaskEditRequest : \E t \in Visible(u) :
          Loaded(r, "edit", u, t, IF "slot_data" \in data.sets THEN "slots" ELSE "write",
                 Edited(orders[t], data))
    BY <1>2 DEF Edit
  <2>1. PICK t \in Visible(u) :
          Loaded(r, "edit", u, t, IF "slot_data" \in data.sets THEN "slots" ELSE "write",
                 Edited(orders[t], data))
    OBVIOUS
  <2>2. t \in DOMAIN orders /\ orders[t] \in Order
    BY <1>1 DEF Visible, OrdersOK
  <2>3. Edited(orders[t], data) \in Order /\ Edited(orders[t], data).by = orders[t].by
    BY <2>2 DEF Edited, Order, TaskEditRequest, StatusFor, Open
  <2> QED
    BY <1>1, <2>1, <2>2, <2>3, LoadedKeeps
<1>3. CASE CheckSlots(r)
  <2>1. CASE MissingSlots(ireq[r].form.template, ireq[r].form.slots) = {}
    BY <1>1, <1>3, <2>1, AdvanceKeeps DEF CheckSlots, Stands
  <2> QED
    BY <1>1, <1>3, <2>1, ReplyKeeps DEF CheckSlots
<1>4. CASE Rate(r)
  <2> PICK u \in Callers : \E t \in Visible(u) : Loaded(r, "rate", u, t, "write", Rated(orders[t]))
    BY <1>4 DEF Rate
  <2>1. PICK t \in Visible(u) : Loaded(r, "rate", u, t, "write", Rated(orders[t]))
    OBVIOUS
  <2>2. t \in DOMAIN orders /\ orders[t] \in Order
    BY <1>1 DEF Visible, OrdersOK
  <2>3. Rated(orders[t]) \in Order /\ Rated(orders[t]).by = orders[t].by
    BY <2>2 DEF Rated, Order
  <2> QED
    BY <1>1, <2>1, <2>2, <2>3, LoadedKeeps
<1> QED
  BY <1>2, <1>3, <1>4

\* No task and no request changes.
LEMMA UnchangedKeeps ==
  ASSUME IntakeInv, UNCHANGED <<orders, ireq, moved>>
  PROVE  IntakeInv'
BY DEF IntakeInv, OrdersOK, InHand, QuotaInv, Bounded, OfPhone, OfUser, PhoneWaits, UserWaits, PastPhone, Concurrent

\* The task's other changes: its status, or its end as one that counts.
LEMMA ElsewhereKeeps ==
  ASSUME IntakeInv, NEW t \in DOMAIN orders, Elsewhere(t)
  PROVE  IntakeInv'
<1>1. UNCHANGED <<ireq, moved>> /\ OrdersOK
  BY DEF Elsewhere, IntakeInv
<1>2. CASE GrowsOld(t)
  <2>1. orders' = [k \in DOMAIN orders \ {t} |-> orders[k]] /\ \A s \in IntakeRequests : ireq[s].task # t
    BY <1>2 DEF GrowsOld
  <2>2. OrdersOK'
    BY <1>1, <2>1 DEF OrdersOK
  <2> QED
    BY <1>1, <2>1, <2>2, RowsKeep
<1>3. CASE TakenAsDue(t) \/ NotPromoted(t)
  <2>1. UNCHANGED orders
    BY <1>3 DEF TakenAsDue, NotPromoted
  <2> QED
    BY <1>1, <2>1, UnchangedKeeps
<1>4. CASE Promoted(t) \/ Claims(t) \/ Ends(t) \/ Cancelled(t) \/ TriedAgain(t)
  <2>1. PICK status \in Open \cup {"IN_PROGRESS", Settled} : orders' = [orders EXCEPT ![t].status = status]
    BY <1>4 DEF Promoted, Claims, Ends, Cancelled, TriedAgain, Open
  <2>2. OrdersOK'
    BY <1>1, <2>1 DEF OrdersOK, Order
  <2>3. \A k \in DOMAIN orders' : orders'[k].by = orders[k].by /\ orders'[k].phone = orders[k].phone
    BY <1>1, <2>1 DEF OrdersOK, Order
  <2> QED
    BY <1>1, <2>1, <2>2, <2>3, RowsKeep
<1> QED
  BY <1>2, <1>3, <1>4 DEF Elsewhere

LEMMA IntakeStepInv == IntakeInv /\ [IntakeNext]_intakeVars => IntakeInv'
<1> SUFFICES ASSUME IntakeInv, [IntakeNext]_intakeVars PROVE IntakeInv'
  OBVIOUS
<1>1. ASSUME NEW r \in IntakeRequests, IntakeStep(r) PROVE IntakeInv'
  BY <1>1, CreateKeeps, CountKeeps, InsertTaskKeeps, EditKeeps, WriteTaskKeeps DEF IntakeStep
<1>2. ASSUME NEW t \in DOMAIN orders, Elsewhere(t) PROVE IntakeInv'
  BY <1>2, ElsewhereKeeps
<1>3. ASSUME NEW q \in CatalogRequests, CatalogChanges(q) PROVE IntakeInv'
  BY <1>3, UnchangedKeeps DEF CatalogChanges
<1>4. CASE UNCHANGED intakeVars
  BY <1>4, UnchangedKeeps DEF intakeVars, otherVars, historyVars
<1> QED
  BY <1>1, <1>2, <1>3, <1>4 DEF IntakeNext

LEMMA IntakeInductive == IntakeSpec => []IntakeInv
  BY IntakeInitInv, IntakeStepInv, PTL DEF IntakeSpec

LEMMA QuotasFollow == IntakeInv => QuotasHold
<1> SUFFICES ASSUME IntakeInv PROVE QuotasHold
  OBVIOUS
<1>1. OrdersOK /\ QuotaInv
  BY DEF IntakeInv
<1>2. ASSUME NEW T \in SUBSET TaskIds, NEW K \in SUBSET IntakeRequests, NEW max \in Nat, Bounded(T, K, max)
      PROVE  Cardinality(T) <= max - 1 + Concurrent
  <2>1. IsFiniteSet(T) /\ IsFiniteSet(K) /\ IsFiniteSet(IntakeRequests)
    BY FS_Subset, IntakeAssumption
  <2>2. Cardinality(T) \in Nat /\ Cardinality(K) \in Nat /\ Cardinality(IntakeRequests) \in Nat
    BY <2>1, FS_CardinalityType
  <2> QED
    BY <1>2, <2>2 DEF Bounded, Concurrent
<1> QED
  BY <1>1, <1>2, SetsFit DEF QuotaInv, QuotasHold

\* The daily limits of a phone and of a user are exceeded by the requests that
\* count at the same time, and by no more (tasks/service.py:51-64).
THEOREM QuotaOverrunBounded == IntakeSpec => []QuotasHold
  BY QuotasFollow, IntakeInductive, PTL

-----------------------------------------------------------------------------
(* Times and slots *)

Filled(i, slots) == MissingSlots(i, slots) # {} => i \in grown

WaitsForItsTime(o) == o.status = StatusFor(o.time)

\* What a request in hand makes of a task: a new row waits for its time and is
\* filled; an edit keeps the template, sets the status with the time or leaves
\* both, and has checked the slots if it changes them.
FormInv(q) ==
  /\ q.step \in {"template", "phone", "user", "insert"} =>
       WaitsForItsTime(q.form) /\ q.form.template \in DOMAIN catalog
  /\ q.step \in {"phone", "user", "insert"} => Filled(q.form.template, q.form.slots)
  /\ q.step \in {"slots", "write"} =>
       /\ q.form.template = q.was.template /\ q.was.template = orders[q.task].template
       /\ WaitsForItsTime(q.form) \/ (q.form.status = q.was.status /\ q.form.time = q.was.time)
  /\ q.step = "write" => q.form.slots = q.was.slots \/ Filled(q.form.template, q.form.slots)

RowInv ==
  /\ ScheduleAgrees
  /\ SlotsAreFilled
  /\ \A t \in DOMAIN orders : orders[t].template \in DOMAIN catalog
  /\ \A r \in IntakeRequests : FormInv(ireq[r])

LEMMA VacantForm == FormInv(Vacant)
BY DEF FormInv, Vacant

LEMMA RowInitInv == IntakeInit => RowInv
<1> SUFFICES ASSUME IntakeInit PROVE RowInv
  OBVIOUS
<1>1. \A r \in IntakeRequests : ireq[r] = Vacant
  BY DEF IntakeInit
<1>2. DOMAIN orders = {}
  BY DEF IntakeInit
<1> QED
  BY <1>1, <1>2, VacantForm DEF RowInv, ScheduleAgrees, SlotsAreFilled

\* A request goes on, and no row changes.
LEMMA FormKeeps ==
  ASSUME IntakeInv, RowInv, NEW r \in IntakeRequests, NEW q, FormInv(q),
         ireq' = [ireq EXCEPT ![r] = q], UNCHANGED <<catalogVars, orders, otherVars>>
  PROVE  RowInv'
<1>1. UNCHANGED <<catalog, orders, tangled, revived, promoted, grown>>
  BY DEF catalogVars, otherVars, historyVars
<1>2. ScheduleAgrees' /\ SlotsAreFilled'
  BY <1>1 DEF RowInv, ScheduleAgrees, SlotsAreFilled, MissingSlots
<1>3. \A t \in DOMAIN orders' : orders'[t].template \in DOMAIN catalog'
  BY <1>1 DEF RowInv
<1>4. ASSUME NEW s \in IntakeRequests PROVE FormInv(ireq[s])'
  <2>1. ireq'[s] = IF s = r THEN q ELSE ireq[s]
    BY DEF IntakeInv, OrdersOK
  <2>2. FormInv(ireq'[s])
    BY <2>1 DEF RowInv
  <2> QED
    BY <1>1, <2>2 DEF FormInv, Filled, MissingSlots
<1> QED
  BY <1>2, <1>3, <1>4 DEF RowInv

LEMMA ReplyFormKeeps ==
  ASSUME IntakeInv, RowInv, NEW r \in IntakeRequests, Reply(r),
         UNCHANGED <<catalogVars, orders, otherVars>>
  PROVE  RowInv'
BY VacantForm, FormKeeps DEF Reply

LEMMA CreateKeepsRows ==
  ASSUME IntakeInv, RowInv, NEW r \in IntakeRequests, Create(r) \/ Duplicate(r) \/ DuplicateTemplate(r)
  PROVE  RowInv'
<1>1. UNCHANGED <<catalogVars, orders, otherVars>>
  BY DEF Create, Duplicate, DuplicateTemplate
\* The template has been read.
<1>2. ASSUME NEW op, NEW form, TemplateRead(r, op, form), WaitsForItsTime(form),
             form.template \in DOMAIN catalog
      PROVE  RowInv'
  <2> DEFINE q == [op |-> op, step |-> "phone", by |-> form.by, task |-> NoTask,
                   form |-> form, was |-> NoOrder]
  <2>1. ireq' = [ireq EXCEPT ![r] = q]
    BY <1>2 DEF TemplateRead
  <2>2. FormInv(q)
    BY <1>2 DEF FormInv, TemplateRead, Filled
  <2> HIDE DEF q
  <2> QED
    BY <1>1, <2>1, <2>2, FormKeeps
<1>3. CASE Create(r)
  <2>1. PICK u \in Callers, data \in TaskCreate :
          data.template \in DOMAIN catalog /\ TemplateRead(r, "create", Form(u, data))
    BY <1>3 DEF Create
  <2>2. WaitsForItsTime(Form(u, data)) /\ Form(u, data).template = data.template
    BY DEF WaitsForItsTime, Form
  <2> QED
    BY <1>2, <2>1, <2>2
<1>4. CASE Duplicate(r)
  <2>1. PICK u \in Callers, data \in TaskDuplicateRequest, t \in DOMAIN orders :
          ireq' = [ireq EXCEPT ![r] =
            [op |-> "duplicate", step |-> "template", by |-> u, task |-> t,
             form |-> Form(u, [phone |-> data.phone, template |-> orders[t].template,
                               slots |-> orders[t].slots, time |-> data.time]), was |-> NoOrder]]
    BY <1>4 DEF Duplicate, Visible
  <2> DEFINE form == Form(u, [phone |-> data.phone, template |-> orders[t].template,
                              slots |-> orders[t].slots, time |-> data.time])
             q == [op |-> "duplicate", step |-> "template", by |-> u, task |-> t,
                   form |-> form, was |-> NoOrder]
  <2>2. WaitsForItsTime(form) /\ form.template \in DOMAIN catalog
    BY DEF WaitsForItsTime, Form, RowInv
  <2>3. ireq' = [ireq EXCEPT ![r] = q]
    BY <2>1
  <2> HIDE DEF form
  <2>4. FormInv(q)
    BY <2>2 DEF FormInv
  <2> HIDE DEF q
  <2> QED
    BY <1>1, <2>3, <2>4, FormKeeps
<1>5. CASE DuplicateTemplate(r)
  <2>1. WaitsForItsTime(ireq[r].form) /\ ireq[r].form.template \in DOMAIN catalog
    BY <1>5 DEF DuplicateTemplate, Stands, RowInv, FormInv
  <2> QED
    BY <1>1, <1>2, <1>5, <2>1, ReplyFormKeeps DEF DuplicateTemplate
<1> QED
  BY <1>3, <1>4, <1>5

LEMMA CountKeepsRows ==
  ASSUME IntakeInv, RowInv, NEW r \in IntakeRequests, CountPhone(r) \/ CountUser(r)
  PROVE  RowInv'
<1>1. UNCHANGED <<catalogVars, orders, otherVars>>
  BY DEF CountPhone, CountUser
<1>2. ASSUME NEW step \in {"user", "insert"}, Advance(r, step), ireq[r].step \in {"phone", "user"}
      PROVE  RowInv'
  <2> DEFINE q == [ireq[r] EXCEPT !.step = step]
  <2>1. ireq' = [ireq EXCEPT ![r] = q]
    BY <1>2 DEF Advance
  <2>2. q.step = step /\ q.form = ireq[r].form
    BY DEF IntakeInv, OrdersOK, IntakeRequest
  <2>3. FormInv(q)
    BY <1>2, <2>2 DEF FormInv, RowInv
  <2> HIDE DEF q
  <2> QED
    BY <1>1, <2>1, <2>3, FormKeeps
<1> QED
  BY <1>1, <1>2, ReplyFormKeeps DEF CountPhone, CountUser, Stands

LEMMA InsertKeepsRows ==
  ASSUME IntakeInv, RowInv, NEW r \in IntakeRequests, InsertTask(r)
  PROVE  RowInv'
<1> DEFINE t == CHOOSE k \in TaskIds \ DOMAIN orders : TRUE
           form == ireq[r].form
<1>1. t \in TaskIds \ DOMAIN orders
  BY DEF InsertTask
<1>2. /\ orders' = [k \in DOMAIN orders \cup {t} |-> IF k = t THEN form ELSE orders[k]]
      /\ tangled' = tangled \ {t} /\ revived' = revived \ {t} /\ promoted' = promoted \ {t}
      /\ UNCHANGED <<catalog, grown>>
      /\ ireq' = [ireq EXCEPT ![r] = Vacant]
  BY DEF InsertTask, Reply, catalogVars
<1>3. WaitsForItsTime(form) /\ form.template \in DOMAIN catalog /\ Filled(form.template, form.slots)
  BY DEF InsertTask, Stands, RowInv, FormInv
<1> HIDE DEF t, form
<1>4. ScheduleAgrees'
  BY <1>1, <1>2, <1>3 DEF RowInv, ScheduleAgrees, WaitsForItsTime
<1>5. SlotsAreFilled'
  BY <1>1, <1>2, <1>3 DEF RowInv, SlotsAreFilled, Filled, MissingSlots
<1>6. \A k \in DOMAIN orders' : orders'[k].template \in DOMAIN catalog'
  BY <1>1, <1>2, <1>3 DEF RowInv
<1>7. ASSUME NEW s \in IntakeRequests PROVE FormInv(ireq[s])'
  <2>1. CASE s = r
    BY <1>2, <2>1, VacantForm DEF IntakeInv, OrdersOK, FormInv, Vacant
  <2>2. CASE s # r
    <3>1. ireq'[s] = ireq[s] /\ FormInv(ireq[s])
      BY <1>2, <2>2 DEF IntakeInv, OrdersOK, RowInv
    <3>2. ireq[s].step \in {"slots", "write"} => orders'[ireq[s].task] = orders[ireq[s].task]
      BY <1>1, <1>2 DEF IntakeInv, InHand
    <3> QED
      BY <1>2, <3>1, <3>2 DEF FormInv, Filled, MissingSlots
  <2> QED
    BY <2>1, <2>2
<1> QED
  BY <1>4, <1>5, <1>6, <1>7 DEF RowInv

LEMMA EditKeepsRows ==
  ASSUME IntakeInv, RowInv, NEW r \in IntakeRequests, Edit(r) \/ CheckSlots(r) \/ Rate(r)
  PROVE  RowInv'
<1>1. UNCHANGED <<catalogVars, orders, otherVars>>
  BY DEF Edit, CheckSlots, Rate
<1>2. ASSUME NEW op, NEW u, NEW t \in DOMAIN orders, NEW step \in {"slots", "write"}, NEW form,
             Loaded(r, op, u, t, step, form), form.template = orders[t].template,
             WaitsForItsTime(form) \/ (form.status = orders[t].status /\ form.time = orders[t].time),
             step = "write" => form.slots = orders[t].slots
      PROVE  RowInv'
  <2> DEFINE q == [op |-> op, step |-> step, by |-> u, task |-> t, form |-> form, was |-> orders[t]]
  <2>1. ireq' = [ireq EXCEPT ![r] = q]
    BY <1>2 DEF Loaded
  <2>2. FormInv(q)
    BY <1>2 DEF FormInv
  <2> HIDE DEF q
  <2> QED
    BY <1>1, <2>1, <2>2, FormKeeps
<1>3. CASE Edit(r)
  <2>1. PICK u \in Callers, data \in TaskEditRequest, t \in DOMAIN orders :
          Loaded(r, "edit", u, t, IF "slot_data" \in data.sets THEN "slots" ELSE "write",
                 Edited(orders[t], data))
    BY <1>3 DEF Edit, Visible
  <2> DEFINE form == Edited(orders[t], data)
  <2>2. orders[t] \in Order
    BY DEF IntakeInv, OrdersOK
  <2>3. /\ form.template = orders[t].template
        /\ WaitsForItsTime(form) \/ (form.status = orders[t].status /\ form.time = orders[t].time)
        /\ "slot_data" \notin data.sets => form.slots = orders[t].slots
    BY <2>2 DEF Edited, Order, WaitsForItsTime
  <2> HIDE DEF form
  <2> QED
    BY <1>2, <2>1, <2>3 DEF form
<1>4. CASE CheckSlots(r)
  <2>1. CASE MissingSlots(ireq[r].form.template, ireq[r].form.slots) # {}
    BY <1>1, <1>4, <2>1, ReplyFormKeeps DEF CheckSlots
  <2>2. CASE MissingSlots(ireq[r].form.template, ireq[r].form.slots) = {}
    <3> DEFINE q == [ireq[r] EXCEPT !.step = "write"]
    <3>1. ireq' = [ireq EXCEPT ![r] = q] /\ ireq[r].step = "slots"
      BY <1>4, <2>2 DEF CheckSlots, Advance, Stands
    <3>2. q.step = "write" /\ q.form = ireq[r].form /\ q.was = ireq[r].was /\ q.task = ireq[r].task
      BY DEF IntakeInv, OrdersOK, IntakeRequest
    <3>3. FormInv(ireq[r])
      BY DEF RowInv
    <3> HIDE DEF q
    <3>4. FormInv(q)
      BY <2>2, <3>1, <3>2, <3>3 DEF FormInv, Filled
    <3> QED
      BY <1>1, <3>1, <3>4, FormKeeps
  <2> QED
    BY <2>1, <2>2
<1>5. CASE Rate(r)
  <2>1. PICK u \in Callers, t \in DOMAIN orders : Loaded(r, "rate", u, t, "write", Rated(orders[t]))
    BY <1>5 DEF Rate, Visible
  <2>2. orders[t] \in Order
    BY DEF IntakeInv, OrdersOK
  <2> DEFINE form == Rated(orders[t])
  <2>3. /\ form.template = orders[t].template /\ form.slots = orders[t].slots
        /\ form.status = orders[t].status /\ form.time = orders[t].time
    BY <2>2 DEF Rated, Order
  <2> HIDE DEF form
  <2> QED
    BY <1>2, <2>1, <2>3 DEF form
<1> QED
  BY <1>3, <1>4, <1>5

\* A commit over the row that was loaded gives the row that was wanted; over any
\* row it keeps the template, and the slots unless the request has changed them.
LEMMA MergedFields ==
  ASSUME NEW now \in Order, NEW was \in Order, NEW new \in Order, new.template = was.template
  PROVE  /\ now = was => Merged(now, was, new).status = new.status /\ Merged(now, was, new).time = new.time
         /\ Merged(now, was, new).template = now.template
         /\ Merged(now, was, new).slots = IF new.slots # was.slots THEN new.slots ELSE now.slots
BY DEF Merged, Order

LEMMA WriteKeepsRows ==
  ASSUME IntakeInv, RowInv, NEW r \in IntakeRequests, WriteTask(r)
  PROVE  RowInv'
<1> DEFINE t == ireq[r].task
           was == ireq[r].was
           form == ireq[r].form
           row == Merged(orders[t], was, form)
<1>1. t \in DOMAIN orders /\ orders[t] \in Order /\ was \in Order /\ form \in Order
  BY DEF WriteTask, Stands, IntakeInv, InHand, OrdersOK
<1>2. /\ form.template = was.template /\ was.template = orders[t].template
      /\ WaitsForItsTime(form) \/ (form.status = was.status /\ form.time = was.time)
      /\ form.slots = was.slots \/ Filled(form.template, form.slots)
  BY DEF WriteTask, Stands, RowInv, FormInv
<1>3. /\ orders' = [orders EXCEPT ![t] = row] /\ ireq' = [ireq EXCEPT ![r] = Vacant]
      /\ tangled' = (IF orders[t] # was THEN tangled \cup {t} ELSE tangled)
      /\ UNCHANGED <<catalog, revived, promoted, grown>>
  BY DEF WriteTask, Reply, catalogVars
<1>4. /\ orders[t] = was => row.status = form.status /\ row.time = form.time
      /\ row.template = orders[t].template
      /\ row.slots = IF form.slots # was.slots THEN form.slots ELSE orders[t].slots
  BY <1>1, <1>2, MergedFields
<1> HIDE DEF t, was, form, row
<1>5. ScheduleAgrees'
  <2> SUFFICES ASSUME NEW k \in DOMAIN orders' \ tangled', orders'[k].status \in Open
               PROVE  \/ orders'[k].status = StatusFor(orders'[k].time)
                      \/ k \in revived' \cup promoted' /\ orders'[k].status = "PENDING"
    BY DEF ScheduleAgrees
  <2>1. CASE k # t
    BY <1>3, <2>1 DEF RowInv, ScheduleAgrees
  <2>2. CASE k = t
    <3>1. orders[t] = was /\ t \notin tangled /\ orders'[t] = row
      BY <1>1, <1>3, <2>2
    <3> QED
      BY <1>1, <1>2, <1>3, <1>4, <2>2, <3>1 DEF RowInv, ScheduleAgrees, WaitsForItsTime
  <2> QED
    BY <2>1, <2>2
<1>6. SlotsAreFilled'
  BY <1>1, <1>2, <1>3, <1>4 DEF RowInv, SlotsAreFilled, Filled, MissingSlots
<1>7. \A k \in DOMAIN orders : orders'[k].template = orders[k].template
  BY <1>1, <1>3, <1>4
<1>8. ASSUME NEW s \in IntakeRequests PROVE FormInv(ireq[s])'
  <2>1. CASE s = r
    BY <1>3, <2>1 DEF IntakeInv, OrdersOK, FormInv, Vacant
  <2>2. CASE s # r
    <3>1. ireq'[s] = ireq[s] /\ FormInv(ireq[s])
      BY <1>3, <2>2 DEF IntakeInv, OrdersOK, RowInv
    <3>2. ireq[s].step \in {"slots", "write"} =>
            orders'[ireq[s].task].template = orders[ireq[s].task].template
      BY <1>7 DEF IntakeInv, InHand
    <3> QED
      BY <1>3, <3>1, <3>2 DEF FormInv, Filled, MissingSlots
  <2> QED
    BY <2>1, <2>2
<1> QED
  BY <1>3, <1>5, <1>6, <1>7, <1>8 DEF RowInv

LEMMA ElsewhereKeepsRows ==
  ASSUME IntakeInv, RowInv, NEW t \in DOMAIN orders, Elsewhere(t)
  PROVE  RowInv'
<1>1. UNCHANGED <<catalog, ireq, tangled, grown>>
  BY DEF Elsewhere, catalogVars
<1>2. orders[t] \in Order
  BY DEF IntakeInv, OrdersOK
<1>3. ScheduleAgrees'
  <2>1. CASE GrowsOld(t)
    BY <1>1, <2>1 DEF GrowsOld, RowInv, ScheduleAgrees
  <2>2. CASE TriedAgain(t)
    BY <1>1, <1>2, <2>2 DEF TriedAgain, RowInv, ScheduleAgrees, Order
  <2>3. CASE Claims(t) \/ Ends(t) \/ Cancelled(t)
    BY <1>1, <1>2, <2>3 DEF Claims, Ends, Cancelled, Open, Settled, RowInv, ScheduleAgrees, Order
  <2>4. CASE Promoted(t)
    BY <1>1, <1>2, <2>4 DEF Promoted, RowInv, ScheduleAgrees, Order
  <2>5. CASE TakenAsDue(t) \/ NotPromoted(t)
    BY <1>1, <2>5 DEF TakenAsDue, NotPromoted, RowInv, ScheduleAgrees
  <2> QED
    BY <2>1, <2>2, <2>3, <2>4, <2>5 DEF Elsewhere
\* No other column changes, and no row that a request has in hand goes.
<1>4. /\ DOMAIN orders' \subseteq DOMAIN orders
      /\ \A k \in DOMAIN orders' :
           orders'[k].template = orders[k].template /\ orders'[k].slots = orders[k].slots
  <2>1. CASE GrowsOld(t)
    BY <2>1 DEF GrowsOld
  <2>2. CASE ~GrowsOld(t)
    BY <1>2, <2>2 DEF Elsewhere, TakenAsDue, Promoted, NotPromoted, Claims, Ends, Cancelled, TriedAgain, Order
  <2> QED
    BY <2>1, <2>2
<1>5. \A s \in IntakeRequests : ireq[s].step \in {"slots", "write"} => ireq[s].task \in DOMAIN orders'
  <2>1. CASE GrowsOld(t)
    BY <2>1 DEF GrowsOld, IntakeInv, InHand
  <2>2. CASE ~GrowsOld(t)
    BY <2>2 DEF Elsewhere, TakenAsDue, Promoted, NotPromoted, Claims, Ends, Cancelled, TriedAgain, IntakeInv, InHand
  <2> QED
    BY <2>1, <2>2
<1>6. SlotsAreFilled'
  BY <1>1, <1>4 DEF RowInv, SlotsAreFilled, MissingSlots
<1>7. ASSUME NEW s \in IntakeRequests PROVE FormInv(ireq[s])'
  BY <1>1, <1>4, <1>5 DEF RowInv, FormInv, Filled, MissingSlots
<1> QED
  BY <1>1, <1>3, <1>4, <1>6, <1>7 DEF RowInv

\* Templates are never removed, and one that comes to ask for more has grown.
LEMMA CatalogKeepsRows ==
  ASSUME IntakeInv, RowInv, NEW q \in CatalogRequests, CatalogChanges(q)
  PROVE  RowInv'
<1>1. UNCHANGED <<orders, ireq, tangled, revived, promoted>>
  BY DEF CatalogChanges
<1>2. DOMAIN catalog \subseteq DOMAIN catalog'
  <2>1. ASSUME NEW i, NEW row, Write(q, i, row) PROVE DOMAIN catalog \subseteq DOMAIN catalog'
    BY <2>1 DEF Write
  <2> QED
    BY <2>1 DEF CatalogChanges, CatalogStep, AskCreate, AskUpdate, AskDelete, AskRestore, Ask,
                LoadTemplate, NameIsTaken, NameIsFree, InsertTemplate, UpdateTemplate
<1>3. ASSUME NEW i \in DOMAIN catalog, NEW slots, Filled(i, slots) PROVE Filled(i, slots)'
  BY <1>3 DEF CatalogChanges, Filled, MissingSlots
<1>4. \A i \in DOMAIN catalog : \A slots : Filled(i, slots) => Filled(i, slots)'
  BY <1>3
<1>5. ScheduleAgrees'
  BY <1>1 DEF RowInv, ScheduleAgrees
<1>6. SlotsAreFilled'
  BY <1>1, <1>4 DEF RowInv, SlotsAreFilled, Filled
<1>7. ASSUME NEW s \in IntakeRequests PROVE FormInv(ireq[s])'
  <2>1. FormInv(ireq[s]) /\ UNCHANGED ireq[s] /\ InHand(ireq[s])
    BY <1>1 DEF RowInv, IntakeInv
  <2>2. ireq[s].step \in {"slots", "write"} => ireq[s].form.template \in DOMAIN catalog
    BY <2>1 DEF FormInv, InHand, RowInv
  <2> QED
    BY <1>1, <1>2, <1>4, <2>1, <2>2 DEF FormInv, WaitsForItsTime
<1> QED
  BY <1>1, <1>2, <1>5, <1>6, <1>7 DEF RowInv

LEMMA RowStepInv == IntakeInv /\ RowInv /\ [IntakeNext]_intakeVars => RowInv'
<1> SUFFICES ASSUME IntakeInv, RowInv, [IntakeNext]_intakeVars PROVE RowInv'
  OBVIOUS
<1>1. ASSUME NEW r \in IntakeRequests, IntakeStep(r) PROVE RowInv'
  BY <1>1, CreateKeepsRows, CountKeepsRows, InsertKeepsRows, EditKeepsRows, WriteKeepsRows DEF IntakeStep
<1>2. CASE UNCHANGED intakeVars
  BY <1>2 DEF intakeVars, otherVars, historyVars, catalogVars, RowInv, ScheduleAgrees, SlotsAreFilled,
              FormInv, Filled, MissingSlots
<1> QED
  BY <1>1, <1>2, ElsewhereKeepsRows, CatalogKeepsRows DEF IntakeNext

LEMMA RowInductive == IntakeSpec => []RowInv
  BY RowInitInv, RowStepInv, IntakeInductive, PTL DEF IntakeSpec

\* Whatever creations, edits, promotions, retries and claims interleave, a task waits for
\* its time exactly if it has one, but for rows written over a newer one and for
\* tasks promoted or tried again (tasks/service.py:66, 125-130,
\* scheduler/service.py:113-121).
THEOREM TasksWaitForTheirTime == IntakeSpec => []ScheduleAgrees
<1>1. RowInv => ScheduleAgrees
  BY DEF RowInv
<1> QED
  BY <1>1, RowInductive, PTL

\* No creation, duplicate or edit leaves a slot of the template empty, unless
\* the template has come to ask for more since (tasks/service.py:47-49, 117-123).
THEOREM TasksFillTheirSlots == IntakeSpec => []SlotsAreFilled
<1>1. RowInv => SlotsAreFilled
  BY DEF RowInv
<1> QED
  BY <1>1, RowInductive, PTL

-----------------------------------------------------------------------------
(* Types *)

\* The history that the names need.
ContestOK == contested \subseteq CatalogRequests /\ clashed \in BOOLEAN

LEMMA ContestInit == CatalogInit => ContestOK
BY DEF CatalogInit, ContestOK

LEMMA ContestStep == ContestOK /\ [CatalogNext]_catalogVars => ContestOK'
<1> SUFFICES ASSUME ContestOK, [CatalogNext]_catalogVars PROVE ContestOK'
  OBVIOUS
<1> USE DEF ContestOK
<1>1. CASE UNCHANGED catalogVars
  BY <1>1 DEF catalogVars
<1>2. ASSUME NEW r \in CatalogRequests, CatalogStep(r) PROVE ContestOK'
  <2>1. ASSUME NEW i, NEW row, Write(r, i, row) PROVE ContestOK'
    <3>1. clashed' \in BOOLEAN
      BY <2>1 DEF Write
    <3> QED
      BY <2>1, <3>1 DEF Write
  <2>2. ASSUME NEW op, NEW id, NEW name, NEW slots, Ask(r, op, id, name, slots) PROVE ContestOK'
    BY <2>2 DEF Ask
  <2>3. CASE AskCreate(r) \/ AskUpdate(r) \/ AskDelete(r) \/ AskRestore(r)
    BY <2>2, <2>3 DEF AskCreate, AskUpdate, AskDelete, AskRestore
  <2>4. CASE LoadTemplate(r) \/ NameIsTaken(r) \/ NameIsFree(r)
    BY <2>4 DEF LoadTemplate, NameIsTaken, NameIsFree
  <2>5. CASE InsertTemplate(r) \/ UpdateTemplate(r)
    BY <2>1, <2>5 DEF InsertTemplate, UpdateTemplate
  <2> QED
    BY <1>2, <2>3, <2>4, <2>5 DEF CatalogStep
<1> QED
  BY <1>1, <1>2 DEF CatalogNext

HistoryOK ==
  /\ CatalogInv /\ ContestOK
  /\ moved \subseteq TaskIds /\ tangled \subseteq TaskIds /\ revived \subseteq TaskIds
  /\ promoting \subseteq TaskIds /\ promoted \subseteq TaskIds /\ grown \subseteq TemplateIds

LEMMA HistoryInit == IntakeInit => HistoryOK
BY CatalogInitInv, ContestInit DEF IntakeInit, HistoryOK

LEMMA HistoryStep == IntakeInv /\ HistoryOK /\ [IntakeNext]_intakeVars => HistoryOK'
<1> SUFFICES ASSUME IntakeInv, HistoryOK, [IntakeNext]_intakeVars PROVE HistoryOK'
  OBVIOUS
<1>0. UNCHANGED catalogVars => CatalogInv' /\ ContestOK'
  BY CatalogStepInv, ContestStep DEF HistoryOK
<1>1. CASE UNCHANGED intakeVars
  BY <1>0, <1>1 DEF intakeVars, otherVars, historyVars, HistoryOK
<1>2. ASSUME NEW r \in IntakeRequests, IntakeStep(r) PROVE HistoryOK'
  <2>1. CASE InsertTask(r)
    BY <1>0, <2>1 DEF InsertTask, HistoryOK
  <2>2. CASE WriteTask(r)
    <3>1. ireq[r].task \in TaskIds
      BY <2>2 DEF WriteTask, Stands, IntakeInv, InHand, OrdersOK
    <3>2. moved' \subseteq TaskIds /\ tangled' \subseteq TaskIds
          /\ UNCHANGED <<catalogVars, promoting, revived, promoted, grown>>
      BY <2>2, <3>1 DEF WriteTask, HistoryOK
    <3> QED
      BY <1>0, <3>2 DEF HistoryOK
  <2>3. CASE UNCHANGED <<catalogVars, otherVars>>
    BY <1>0, <2>3 DEF HistoryOK, otherVars, historyVars
  <2> QED
    BY <1>2, <2>1, <2>2, <2>3
       DEF IntakeStep, Create, Duplicate, DuplicateTemplate, CountPhone, CountUser, Edit, CheckSlots, Rate
<1>3. ASSUME NEW t \in DOMAIN orders, Elsewhere(t) PROVE HistoryOK'
  <2>1. t \in TaskIds
    BY DEF IntakeInv, OrdersOK
  <2>2. /\ revived' \subseteq TaskIds /\ promoting' \subseteq TaskIds /\ promoted' \subseteq TaskIds
        /\ UNCHANGED <<catalogVars, moved, tangled, grown>>
    BY <1>3, <2>1 DEF Elsewhere, TakenAsDue, Promoted, NotPromoted, Claims, Ends, Cancelled, TriedAgain,
                      GrowsOld, HistoryOK
  <2> QED
    BY <1>0, <2>2 DEF HistoryOK
<1>4. ASSUME NEW q \in CatalogRequests, CatalogChanges(q) PROVE HistoryOK'
  <2>1. CatalogInv' /\ ContestOK'
    BY <1>4, CatalogStepInv, ContestStep DEF CatalogChanges, CatalogNext, HistoryOK
  <2>2. grown' \subseteq TemplateIds
    BY <1>4 DEF CatalogChanges, HistoryOK, CatalogInv, RowsOK
  <2> QED
    BY <1>4, <2>1, <2>2 DEF CatalogChanges, HistoryOK
<1> QED
  BY <1>1, <1>2, <1>3, <1>4 DEF IntakeNext

LEMMA IntakeFits == IntakeInv /\ HistoryOK => CatalogTypeOK /\ IntakeTypeOK
BY DEF IntakeInv, OrdersOK, IntakeRequest, InHand, HistoryOK, CatalogInv, RowsOK, CatalogRequest,
       ContestOK, CatalogTypeOK, IntakeTypeOK
=============================================================================
