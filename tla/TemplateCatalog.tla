---------------------------- MODULE TemplateCatalog ----------------------------
(***************************************************************************)
(* The dialog templates: TemplateService (templates/service.py) over       *)
(* TemplateRepository, called by administrators.  A name is checked in one *)
(* query and written in a later one, and no column is UNIQUE.              *)
(*                                                                         *)
(* A request's session keeps the row it loaded; a commit writes the        *)
(* columns whose value differs from the loaded one.  Of a template the     *)
(* name, the required slots and is_active are kept; its script and         *)
(* language play no part.                                                  *)
(***************************************************************************)
EXTENDS Integers, FiniteSets

CONSTANTS
  TemplateIds, Names, Slots,
  CatalogRequests  \* requests that may be under way at one time

VARIABLES
  catalog,    \* the DialogTemplate rows
  creq,       \* of each request: operation, step, target, what it loaded and sets
  contested,  \* history: requests during which another one has committed
  clashed     \* history: has a restore or a contested write met a name in use?

catalogVars == <<catalog, creq, contested, clashed>>

NoName == "none"
TemplateRow == [name : Names, slots : SUBSET Slots, active : BOOLEAN]
CatalogOps  == {"create", "update", "delete", "restore"}
NoTemplate  == "no template"

ASSUME CatalogAssumption == NoTemplate \notin TemplateIds /\ NoName \notin Names

NoRow == [name |-> NoName, slots |-> {}, active |-> FALSE]
Unused == [op |-> "none", step |-> "free", id |-> NoTemplate, name |-> NoName,
           slots |-> {}, was |-> NoRow]

CatalogTypeOK ==
  /\ DOMAIN catalog \subseteq TemplateIds
  /\ \A i \in DOMAIN catalog : catalog[i] \in TemplateRow
  /\ \A r \in CatalogRequests :
       /\ creq[r].op \in CatalogOps \cup {"none"} /\ creq[r].step \in {"free", "load", "name", "write"}
       /\ creq[r].id \in TemplateIds \cup {NoTemplate} /\ creq[r].name \in Names \cup {NoName}
       /\ creq[r].slots \subseteq Slots /\ creq[r].was \in TemplateRow \cup {NoRow}
  /\ contested \subseteq CatalogRequests /\ clashed \in BOOLEAN

CatalogInit ==
  /\ catalog = [i \in {} |-> NoRow]
  /\ creq = [r \in CatalogRequests |-> Unused]
  /\ contested = {} /\ clashed = FALSE

\* get_by_name sees the active templates only.
Named(name) == {i \in DOMAIN catalog : catalog[i].active /\ catalog[i].name = name}

Ask(r, op, id, name, slots) ==
  /\ creq[r].step = "free"
  /\ creq' = [creq EXCEPT ![r] = [op |-> op, id |-> id, name |-> name, slots |-> slots,
       step |-> IF op = "create" THEN "name" ELSE "load", was |-> NoRow]]
  /\ contested' = contested \ {r}
  /\ UNCHANGED <<catalog, clashed>>

\* What the forms' validators let through: Names are of the right length once
\* stripped, Slots are keys that are not blank and not too many.
TemplateCreate == [name : Names, slots : SUBSET Slots]

\* What is left out is not changed: NoName, or the slots it has.
TemplateUpdate == [name : Names \cup {NoName}, slots : SUBSET Slots]

\* Bound: no more are created than there are ids.
AskCreate(r)  ==
  /\ Cardinality({q \in CatalogRequests : creq[q].op = "create"})
       < Cardinality(TemplateIds \ DOMAIN catalog)
  /\ \E data \in TemplateCreate : Ask(r, "create", NoTemplate, data.name, data.slots)
AskUpdate(r)  == \E i \in DOMAIN catalog, data \in TemplateUpdate :
                   Ask(r, "update", i, data.name, data.slots)
AskDelete(r)  == \E i \in DOMAIN catalog : Ask(r, "delete", i, NoName, {})
AskRestore(r) == \E i \in DOMAIN catalog : Ask(r, "restore", i, NoName, {})

Refuse(r) == creq' = [creq EXCEPT ![r] = Unused]

\* The first get_by_id; the repository's second one finds the same object.
MayGoOn(op, row) ==
  CASE op = "delete"  -> row.active
    [] op = "restore" -> ~row.active
    [] OTHER -> TRUE

LoadTemplate(r) ==
  /\ creq[r].step = "load"
  /\ LET row == catalog[creq[r].id]
     IN IF MayGoOn(creq[r].op, row)
        THEN creq' = [creq EXCEPT ![r].was = row,
               ![r].step = IF creq[r].op = "update" /\ creq[r].name # NoName THEN "name" ELSE "write"]
        ELSE Refuse(r)
  /\ UNCHANGED <<catalog, contested, clashed>>

\* Of several templates with the name, first() is any.
NameIsTaken(r) ==
  /\ creq[r].step = "name"
  /\ \E i \in Named(creq[r].name) : i # creq[r].id
  /\ Refuse(r)
  /\ UNCHANGED <<catalog, contested, clashed>>

\* Mutant: the name is not looked up.
NameIsFreeAnyway(r) ==
  /\ creq[r].step = "name"
  /\ creq' = [creq EXCEPT ![r].step = "write"]
  /\ UNCHANGED <<catalog, contested, clashed>>

NameIsFree(r) ==
  /\ creq[r].step = "name"
  /\ \/ Named(creq[r].name) = {}
     \/ creq[r].id \in Named(creq[r].name)
  /\ creq' = [creq EXCEPT ![r].step = "write"]
  /\ UNCHANGED <<catalog, contested, clashed>>

\* What the request makes of the row it loaded.
Wanted(r) ==
  LET q == creq[r]
  IN CASE q.op = "create"  -> [name |-> q.name, slots |-> q.slots, active |-> TRUE]
       [] q.op = "update"  -> [q.was EXCEPT !.name = IF q.name = NoName THEN @ ELSE q.name,
                                            !.slots = q.slots]
       [] q.op = "delete"  -> [q.was EXCEPT !.active = FALSE]
       [] q.op = "restore" -> [q.was EXCEPT !.active = TRUE]

\* The row after the request's UPDATE: a column it did not change keeps what
\* others have written meanwhile.
Merged(row, was, new) ==
  [c \in DOMAIN row |-> IF new[c] # was[c] THEN new[c] ELSE row[c]]

Write(r, i, row) ==
  /\ catalog' = [j \in DOMAIN catalog \cup {i} |-> IF j = i THEN row ELSE catalog[j]]
  /\ contested' = {q \in CatalogRequests \ {r} : q \in contested \/ creq[q].step # "free"}
  /\ clashed' = (clashed \/ (/\ r \in contested \/ creq[r].op = "restore"
                             /\ Named(row.name) \ {i} # {}))
  /\ Refuse(r)

InsertTemplate(r) ==
  /\ creq[r].step = "write" /\ creq[r].op = "create"
  /\ \E i \in TemplateIds \ DOMAIN catalog : Write(r, i, Wanted(r))

UpdateTemplate(r) ==
  /\ creq[r].step = "write" /\ creq[r].op # "create"
  /\ Write(r, creq[r].id, Merged(catalog[creq[r].id], creq[r].was, Wanted(r)))

CatalogStep(r) ==
  \/ AskCreate(r) \/ AskUpdate(r) \/ AskDelete(r) \/ AskRestore(r)
  \/ LoadTemplate(r) \/ NameIsTaken(r) \/ NameIsFree(r)
  \/ InsertTemplate(r) \/ UpdateTemplate(r)

CatalogNext == \E r \in CatalogRequests : CatalogStep(r)

CatalogSpec == CatalogInit /\ [][CatalogNext]_catalogVars

-----------------------------------------------------------------------------
(* Properties *)

\* Two active templates share a name only once a restore, which does not look
\* at names, or a contested write, of a request during which another one has
\* committed, has brought them together
\* (templates/service.py:22-33, 57-61, 77-84).
NamesAreUnique ==
  clashed \/ \A i, j \in DOMAIN catalog :
    catalog[i].active /\ catalog[j].active /\ catalog[i].name = catalog[j].name => i = j

=============================================================================
