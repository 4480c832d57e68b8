------------------------------ MODULE TaskIntake ------------------------------
(***************************************************************************)
(* How tasks come into being and are edited: the create, duplicate, edit   *)
(* and rate endpoints (tasks/views.py) with TaskService.create_task,       *)
(* edit_task and rate_task.  A request reads the template, counts the      *)
(* tasks of the phone and of the user and inserts, each in a query of its  *)
(* own; nothing holds the counts while it goes on.                         *)
(*                                                                         *)
(* A request starts with its first query; its data, already validated, are *)
(* chosen there.  A task is kept for the 24 hours in which it counts.      *)
(* That it is promoted, claimed, ends, is cancelled or tried again is only *)
(* what the row shows of it here (QuietCall has how).                      *)
(***************************************************************************)
EXTENDS TemplateCatalog

CONSTANTS
  Callers, Admins,       \* users, and those whose role is admin
  Phones, TaskIds,
  Instants,              \* times a task may be scheduled for
  IntakeRequests,
  MAX_CALLS_PER_PHONE_PER_DAY,
  MAX_CALLS_PER_USER_PER_DAY

ASSUME IntakeAssumption ==
  /\ Admins \subseteq Callers
  /\ IsFiniteSet(IntakeRequests) /\ IsFiniteSet(TaskIds)
  /\ MAX_CALLS_PER_PHONE_PER_DAY \in Nat \ {0}
  /\ MAX_CALLS_PER_USER_PER_DAY \in Nat \ {0}

VARIABLES
  orders,   \* the Task rows of the last 24 hours
  ireq,     \* of each request: operation, step, caller, task, data, row loaded
  promoting,\* tasks that the worker has loaded in transition_task
  moved,    \* history: tasks whose phone an edit has changed
  tangled,  \* history: tasks written by a request that had loaded an older row
  revived,  \* history: tasks that were tried again after they had ended
  promoted, \* history: tasks that the worker has made PENDING when their time had come
  grown     \* history: templates that have come to require another slot

historyVars == <<moved, tangled, revived, promoted, grown>>
otherVars   == <<promoting, historyVars>>
intakeVars  == <<catalogVars, orders, ireq, otherVars>>

NoTask == "no task"
NoTime == "no time"
Open   == {"PENDING", "SCHEDULED"}
Settled == "ENDED"  \* COMPLETED, FAILED or DEFERRED
Order  == [phone : Phones, by : Callers, template : TemplateIds, slots : SUBSET Slots,
           status : Open \cup {"IN_PROGRESS", Settled}, time : Instants \cup {NoTime}, rated : BOOLEAN]
NoOrder == [phone |-> NoTask, by |-> NoTask, template |-> NoTask, slots |-> {},
            status |-> "PENDING", time |-> NoTime, rated |-> FALSE]
IntakeSteps == {"free", "template", "phone", "user", "insert", "slots", "write"}
IntakeOps   == {"create", "duplicate", "edit", "rate"}
Vacant == [op |-> "create", step |-> "free", by |-> NoTask, task |-> NoTask,
           form |-> NoOrder, was |-> NoOrder]

IntakeTypeOK ==
  /\ DOMAIN orders \subseteq TaskIds
  /\ \A t \in DOMAIN orders : orders[t] \in Order
  /\ \A r \in IntakeRequests :
       /\ ireq[r].op \in IntakeOps /\ ireq[r].step \in IntakeSteps
       /\ ireq[r].by \in Callers \cup {NoTask} /\ ireq[r].task \in TaskIds \cup {NoTask}
       /\ ireq[r].form \in Order \cup {NoOrder} /\ ireq[r].was \in Order \cup {NoOrder}
       /\ ireq[r].step # "free" => ireq[r].form \in Order
  /\ moved \subseteq TaskIds /\ tangled \subseteq TaskIds /\ revived \subseteq TaskIds
  /\ promoting \subseteq TaskIds /\ promoted \subseteq TaskIds /\ grown \subseteq TemplateIds

IntakeInit ==
  /\ CatalogInit
  /\ orders = [t \in {} |-> NoOrder]
  /\ ireq = [r \in IntakeRequests |-> Vacant]
  /\ promoting = {}
  /\ moved = {} /\ tangled = {} /\ revived = {} /\ promoted = {} /\ grown = {}

Stands(r, step)  == ireq[r].step = step
Advance(r, step) == ireq' = [ireq EXCEPT ![r].step = step]
Reply(r)         == ireq' = [ireq EXCEPT ![r] = Vacant]

StatusFor(time) == IF time = NoTime THEN "PENDING" ELSE "SCHEDULED"
MissingSlots(i, slots) == catalog[i].slots \ slots

\* get_by_id asks for the caller's task, get_by_id_any_user for any.
Visible(u) == {t \in DOMAIN orders : u \in Admins \/ orders[t].by = u}

-----------------------------------------------------------------------------
(* What the forms' validators let through *)

\* Phones are phone numbers; Slots are keys whose values pass
\* _validate_slot_value; Instants lie ahead, by no more than ninety days, and
\* in the hours in which calls may be made.
TaskCreate == [phone : Phones, template : TemplateIds, slots : SUBSET Slots, time : Instants \cup {NoTime}]

TaskDuplicateRequest == [phone : Phones, time : Instants \cup {NoTime}]

\* sets says which fields are there; only scheduled_time has a meaning as null.
TaskEditRequest ==
  [sets : SUBSET {"target_phone", "slot_data", "scheduled_time"},
   phone : Phones, slots : SUBSET Slots, time : Instants \cup {NoTime}]

-----------------------------------------------------------------------------
(* create_task *)

Form(u, data) ==
  [phone |-> data.phone, by |-> u, template |-> data.template, slots |-> data.slots,
   status |-> StatusFor(data.time), time |-> data.time, rated |-> FALSE]

\* The template has been read: it may be inactive for a duplicate only.
TemplateRead(r, op, form) ==
  /\ op = "duplicate" \/ catalog[form.template].active
  /\ MissingSlots(form.template, form.slots) = {}
  /\ ireq' = [ireq EXCEPT ![r] =
       [op |-> op, step |-> "phone", by |-> form.by, task |-> NoTask, form |-> form, was |-> NoOrder]]

Create(r) ==
  /\ Stands(r, "free")
  /\ \E u \in Callers, data \in TaskCreate :
       data.template \in DOMAIN catalog /\ TemplateRead(r, "create", Form(u, data))
  /\ UNCHANGED <<catalogVars, orders, otherVars>>

\* duplicate_task_view loads the source and hands its template and slots on.
Duplicate(r) ==
  /\ Stands(r, "free")
  /\ \E u \in Callers, data \in TaskDuplicateRequest : \E t \in Visible(u) :
       LET copy == [phone |-> data.phone, template |-> orders[t].template,
                    slots |-> orders[t].slots, time |-> data.time]
       IN ireq' = [ireq EXCEPT ![r] =
            [op |-> "duplicate", step |-> "template", by |-> u, task |-> t,
             form |-> Form(u, copy), was |-> NoOrder]]
  /\ UNCHANGED <<catalogVars, orders, otherVars>>

DuplicateTemplate(r) ==
  /\ Stands(r, "template")
  /\ \/ TemplateRead(r, "duplicate", ireq[r].form)
     \/ MissingSlots(ireq[r].form.template, ireq[r].form.slots) # {} /\ Reply(r)
  /\ UNCHANGED <<catalogVars, orders, otherVars>>

OfPhone(phone) == {t \in DOMAIN orders : orders[t].phone = phone}
OfUser(u)      == {t \in DOMAIN orders : orders[t].by = u}

\* Mutant: off by one.
PhoneMayBeCalledOnceMore(phone) == Cardinality(OfPhone(phone)) <= MAX_CALLS_PER_PHONE_PER_DAY

PhoneMayBeCalled(phone) == Cardinality(OfPhone(phone)) < MAX_CALLS_PER_PHONE_PER_DAY

UserMayCreate(u)        == Cardinality(OfUser(u)) < MAX_CALLS_PER_USER_PER_DAY

\* count_by_phone_in_last_24h
CountPhone(r) ==
  /\ Stands(r, "phone")
  /\ IF PhoneMayBeCalled(ireq[r].form.phone)
     THEN Advance(r, IF ireq[r].by \in Admins THEN "insert" ELSE "user")
     ELSE Reply(r)
  /\ UNCHANGED <<catalogVars, orders, otherVars>>

\* count_by_user_in_last_24h
CountUser(r) ==
  /\ Stands(r, "user")
  /\ IF UserMayCreate(ireq[r].by) THEN Advance(r, "insert") ELSE Reply(r)
  /\ UNCHANGED <<catalogVars, orders, otherVars>>

InsertTask(r) ==
  /\ Stands(r, "insert")
  /\ TaskIds \ DOMAIN orders # {}
  /\ LET t == CHOOSE k \in TaskIds \ DOMAIN orders : TRUE  \* a fresh id
     IN /\ orders' = [k \in DOMAIN orders \cup {t} |-> IF k = t THEN ireq[r].form ELSE orders[k]]
        /\ moved' = moved \ {t} /\ tangled' = tangled \ {t} /\ revived' = revived \ {t}
        /\ promoted' = promoted \ {t}
  /\ Reply(r)
  /\ UNCHANGED <<catalogVars, promoting, grown>>

-----------------------------------------------------------------------------
(* edit_task and rate_task *)

\* Mutant: a new time leaves the status as it was.
EditedKeepingStatus(was, data) ==
  [was EXCEPT !.phone = IF "target_phone" \in data.sets THEN data.phone ELSE @,
              !.slots = IF "slot_data" \in data.sets THEN data.slots ELSE @,
              !.time = IF "scheduled_time" \in data.sets THEN data.time ELSE @]

Edited(was, data) ==
  [was EXCEPT !.phone  = IF "target_phone" \in data.sets THEN data.phone ELSE @,
              !.slots  = IF "slot_data" \in data.sets THEN data.slots ELSE @,
              !.time   = IF "scheduled_time" \in data.sets THEN data.time ELSE @,
              !.status = IF "scheduled_time" \in data.sets THEN StatusFor(data.time) ELSE @]

Loaded(r, op, u, t, step, form) ==
  ireq' = [ireq EXCEPT ![r] = [op |-> op, step |-> step, by |-> u, task |-> t,
                               form |-> form, was |-> orders[t]]]

Edit(r) ==
  /\ Stands(r, "free")
  /\ \E u \in Callers, data \in TaskEditRequest : \E t \in Visible(u) :
       /\ orders[t].status \in Open
       /\ Loaded(r, "edit", u, t, IF "slot_data" \in data.sets THEN "slots" ELSE "write",
            Edited(orders[t], data))
  /\ UNCHANGED <<catalogVars, orders, otherVars>>

\* Mutant: the slots of an edit are not checked.
CheckSlotsNot(r) ==
  /\ Stands(r, "slots")
  /\ Advance(r, "write")
  /\ UNCHANGED <<catalogVars, orders, otherVars>>

CheckSlots(r) ==
  /\ Stands(r, "slots")
  /\ IF MissingSlots(ireq[r].form.template, ireq[r].form.slots) = {}
     THEN Advance(r, "write") ELSE Reply(r)
  /\ UNCHANGED <<catalogVars, orders, otherVars>>

\* rate_task; which rating it is plays no part.
Rated(was) == [was EXCEPT !.rated = TRUE]

Rate(r) ==
  /\ Stands(r, "free")
  /\ \E u \in Callers : \E t \in Visible(u) :
       /\ orders[t].status = Settled
       /\ Loaded(r, "rate", u, t, "write", Rated(orders[t]))
  /\ UNCHANGED <<catalogVars, orders, otherVars>>

\* The commit of an edit or a rating.
WriteTask(r) ==
  /\ Stands(r, "write")
  /\ LET t == ireq[r].task
         row == Merged(orders[t], ireq[r].was, ireq[r].form)
     IN /\ orders' = [orders EXCEPT ![t] = row]
        /\ moved' = IF row.phone # orders[t].phone THEN moved \cup {t} ELSE moved
        /\ tangled' = IF orders[t] # ireq[r].was THEN tangled \cup {t} ELSE tangled
  /\ Reply(r)
  /\ UNCHANGED <<catalogVars, promoting, revived, promoted, grown>>

-----------------------------------------------------------------------------
(* The rest of the system *)

\* transition_task of a task that is due: one is loaded at a time.
TakenAsDue(t) ==
  /\ promoting = {} /\ orders[t].status = "SCHEDULED"
  /\ promoting' = {t}
  /\ UNCHANGED <<orders, revived, promoted>>

\* Its commit writes the status alone, over whatever the row has become; it
\* stays PENDING until a claim, for good if the worker stops in between.
Promoted(t) ==
  /\ t \in promoting
  /\ orders' = [orders EXCEPT ![t].status = "PENDING"]
  /\ promoting' = {} /\ promoted' = promoted \cup {t}
  /\ UNCHANGED revived

\* The worker stops between the two.
NotPromoted(t) ==
  /\ t \in promoting /\ promoting' = {}
  /\ UNCHANGED <<orders, revived, promoted>>

Claims(t) ==
  /\ orders[t].status \in Open
  /\ orders' = [orders EXCEPT ![t].status = "IN_PROGRESS"]
  /\ UNCHANGED <<promoting, revived, promoted>>

Ends(t) ==
  /\ orders[t].status = "IN_PROGRESS"
  /\ orders' = [orders EXCEPT ![t].status = Settled]
  /\ UNCHANGED <<promoting, revived, promoted>>

Cancelled(t) ==
  /\ orders[t].status \in Open
  /\ orders' = [orders EXCEPT ![t].status = Settled]
  /\ UNCHANGED <<promoting, revived, promoted>>

\* Neither the worker nor retry_task touches scheduled_time or the rating.
TriedAgain(t) ==
  /\ orders[t].status = Settled
  /\ orders' = [orders EXCEPT ![t].status = "PENDING"]
  /\ revived' = revived \cup {t}
  /\ UNCHANGED <<promoting, promoted>>

\* A day has gone by since the task was created, and nobody has it in hand.
GrowsOld(t) ==
  /\ t \notin promoting /\ \A r \in IntakeRequests : ireq[r].task # t
  /\ orders' = [k \in DOMAIN orders \ {t} |-> orders[k]]
  /\ UNCHANGED <<promoting, revived, promoted>>

Elsewhere(t) ==
  /\ \/ TakenAsDue(t) \/ Promoted(t) \/ NotPromoted(t)
     \/ Claims(t) \/ Ends(t) \/ Cancelled(t) \/ TriedAgain(t) \/ GrowsOld(t)
  /\ UNCHANGED <<catalogVars, ireq, moved, tangled, grown>>

CatalogChanges(q) ==
  /\ CatalogStep(q)
  /\ grown' = grown \cup {i \in DOMAIN catalog : ~(catalog'[i].slots \subseteq catalog[i].slots)}
  /\ UNCHANGED <<orders, ireq, promoting, moved, tangled, revived, promoted>>

IntakeStep(r) ==
  \/ Create(r) \/ Duplicate(r) \/ DuplicateTemplate(r)
  \/ CountPhone(r) \/ CountUser(r) \/ InsertTask(r)
  \/ Edit(r) \/ CheckSlots(r) \/ Rate(r) \/ WriteTask(r)

IntakeNext ==
  \/ \E r \in IntakeRequests : IntakeStep(r)
  \/ \E t \in DOMAIN orders : Elsewhere(t)
  \/ \E q \in CatalogRequests : CatalogChanges(q)

IntakeSpec == IntakeInit /\ [][IntakeNext]_intakeVars

-----------------------------------------------------------------------------
(* Properties *)

Concurrent == Cardinality(IntakeRequests)

\* The daily limits of a phone and of a user can be exceeded by the requests
\* that count at the same time, and by no more; editing a task's phone goes
\* past the first, so edited tasks are left out of it (tasks/service.py:51-64,
\* 114-115).
QuotasHold ==
  /\ \A phone \in Phones :
       Cardinality(OfPhone(phone) \ moved) <= MAX_CALLS_PER_PHONE_PER_DAY - 1 + Concurrent
  /\ \A u \in Callers \ Admins :
       Cardinality(OfUser(u)) <= MAX_CALLS_PER_USER_PER_DAY - 1 + Concurrent

\* A task waits for its time if it has one, until the worker has promoted it,
\* and never for none: whatever edits, claims, promotions and retries interleave,
\* unless a request has written over a newer row than the one it loaded.  A task
\* that was promoted or tried again may keep a time it no longer waits for
\* (tasks/service.py:66, 125-130, scheduler/service.py:113-121).
ScheduleAgrees ==
  \A t \in DOMAIN orders \ tangled :
    orders[t].status \in Open =>
      \/ orders[t].status = StatusFor(orders[t].time)
      \/ t \in revived \cup promoted /\ orders[t].status = "PENDING"

\* Whichever way a task was made or edited, it fills every slot its template
\* asks for, unless the template has come to ask for more since
\* (tasks/service.py:47-49, 117-123).
SlotsAreFilled ==
  \A t \in DOMAIN orders :
    MissingSlots(orders[t].template, orders[t].slots) # {} => orders[t].template \in grown

=============================================================================
