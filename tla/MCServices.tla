------------------------------ MODULE MCServices ------------------------------
(***************************************************************************)
(* The services around the task's life, model-checked in one run.  They    *)
(* share no state that their modules keep, so a behaviour is about one of  *)
(* them: part says which, and the others stay as they begin.               *)
(*                                                                         *)
(* BridgeMedia, TaskIntake, Accounts and PostCall are checked in several   *)
(* parts, each with the requests that bear on one property; what a part    *)
(* leaves out is a bound, named ...Only.                                   *)
(***************************************************************************)
EXTENDS RealtimeBridge, BridgeMedia, GatherDialog, RateLimiter, CallListeners, FileStore, TaskIntake, Accounts, PostCall

VARIABLE part

services == <<part, bridgeVars, mediaVars, dialogVars, limiterVars, listenerVars, fileVars, intakeVars,
              accountVars, postCallVars>>

MediaParts    == {"sound", "words"}
IntakeParts   == {"quota", "schedule", "slots"}
AccountParts  == {"addresses", "resets", "activity"}
PostCallParts == {"saving", "listening", "notices"}
Parts == {"bridge", "dialog", "limiter", "listeners", "files", "catalog"}
           \cup MediaParts \cup IntakeParts \cup AccountParts \cup PostCallParts

\* Constants whose values a .cfg cannot write.
MCTaskOf   == [s \in Sockets |-> CHOOSE k \in Listened : TRUE]
MCEmitsFor == [e \in Emitters |-> CHOOSE k \in Listened : TRUE]
MCFounders == [u \in UserIds |-> IF u = "u1" THEN "e1" ELSE "none"]

FirstOf(S) == CHOOSE x \in S : TRUE

ServicesInit ==
  /\ part \in Parts
  /\ BridgeInit /\ MediaInit /\ DialogInit /\ LimiterInit /\ ListenersInit /\ FilesInit
  /\ IntakeInit /\ AccountsInit /\ PostCallInit
  /\ part # "dialog" => home = "api"
  /\ \A s \in Sockets :
       token[s] \in IF s # FirstOf(Sockets) THEN {"admin"}
                    ELSE IF part = "listeners" THEN Tokens \ {"admin"} ELSE {"owner"}

-----------------------------------------------------------------------------
(* Bounds *)

\* The agent's audio, marks and the drain.
SoundOnly == UNCHANGED textVars

\* Items and texts, while nothing is played.
WordsOnly == chunks' = 0 /\ UNCHANGED drainVars

NoSlots == \A r \in CatalogRequests : creq'[r].slots = {}

\* The first client connects first.  The first emitter may be cancelled; it emits
\* three events, or two and the others one.
ListenersOnly ==
  LET first == FirstOf(Emitters)
  IN /\ cancelled' \subseteq {first}
     /\ \A e \in Emitters \ {first} :
          events'[e] <= IF events'[first] = MaxEvents THEN 0 ELSE 1
     /\ \A s \in Sockets : handler'[s] # "start" => handler'[FirstOf(Sockets)] # "start"

\* Templates: their names, without slots; one request deletes and restores.
NamesOnly ==
  /\ NoSlots
  /\ \A r \in CatalogRequests :
       creq'[r].op \in {"delete", "restore"} => r = FirstOf(CatalogRequests)

\* One template, with the first name, and one administrator editing it.
OneTemplate ==
  /\ Cardinality(DOMAIN catalog') <= 1
  /\ \A q \in CatalogRequests : creq'[q].step # "free" =>
       q = FirstOf(CatalogRequests) /\ creq'[q].name \in {NoName, FirstOf(Names)}

NoMoreTemplates == NoSlots /\ (Cardinality(DOMAIN catalog) = 1 => creq' = creq)

Busy(r) == ireq'[r].step # "free"
PlainForms == \A r \in IntakeRequests : ireq'[r].form.slots = {} /\ ireq'[r].step # "slots"

\* Creations, of one phone by all requests but the first, and edits that move a
\* user's task to another phone.
QuotaOnly ==
  /\ OneTemplate /\ NoMoreTemplates /\ PlainForms
  /\ \A t \in DOMAIN orders' : orders'[t].status = "PENDING"
  /\ \A r \in IntakeRequests :
       /\ ireq'[r].op \in {"create", "edit"} /\ ireq'[r].form.time = NoTime
       /\ Busy(r) => r = FirstOf(IntakeRequests) \/ ireq'[r].form.phone = FirstOf(Phones)
       /\ ireq'[r].op = "edit" =>
            /\ r = FirstOf(IntakeRequests)
            /\ ireq'[r].form.phone # ireq'[r].was.phone
            /\ ireq'[r].by = FirstOf(Admins) /\ ireq'[r].form.by \notin Admins

\* One task, made by the first request and edited by two while it runs;
\* the second knows one time.
ScheduleOnly ==
  /\ OneTemplate /\ NoMoreTemplates /\ PlainForms
  /\ Cardinality(DOMAIN orders') <= 1
  /\ \A r \in IntakeRequests : Busy(r) =>
       /\ ireq'[r].op # "rate"
       /\ r # FirstOf(IntakeRequests) =>
            ireq'[r].op = "edit" /\ ireq'[r].form.time \in {NoTime, FirstOf(Instants)}
       /\ ireq'[r].op # "edit" => \A k \in IntakeRequests \ {r} : ~Busy(k)
       /\ ireq'[r].form.phone = FirstOf(Phones)
       /\ ireq'[r].by = FirstOf(Admins) /\ ireq'[r].form.by = FirstOf(Admins)

\* Creations and edits of one task while the template changes, or two edits.
SlotsOnly ==
  /\ OneTemplate
  /\ Cardinality(DOMAIN orders') <= 1
  /\ \A t \in DOMAIN orders' : ~orders'[t].rated /\ t \notin revived'
  /\ \A r \in IntakeRequests : Busy(r) =>
       /\ \/ r = FirstOf(IntakeRequests)
          \/ /\ ireq'[r].op = "edit"
             /\ \A q \in CatalogRequests : creq'[q].step = "free"
       /\ ireq'[r].form.time = NoTime
       /\ ireq'[r].form.phone = FirstOf(Phones) /\ ireq'[r].by = FirstOf(Admins)

Asked(ops) == \A r \in AccountRequests : areq'[r].step # "idle" => areq'[r].op \in ops

\* Who may have which address.
AddressesOnly ==
  /\ Asked({"register", "profile", "update"})
  /\ links' = {} /\ second' = 0 /\ \A u \in UserIds : calls'[u] = "none"
  /\ \A r \in AccountRequests :
       /\ areq'[r].role = NoOne
       /\ areq'[r].step = "load" => areq'[r].email # NoOne
       /\ areq'[r].op = "update" => areq'[r].by # areq'[r].on

\* Passwords and reset links.
ResetsOnly == Asked({"password", "confirm"}) /\ calls' = calls

\* Roles, deactivation and deletion, of a second user who has calls.
ActivityOnly ==
  /\ Asked({"create", "role", "deactivate", "restore", "delete"})
  /\ links' = {} /\ second' = 0 /\ calls'["u1"] = "none"
  /\ \A r \in AccountRequests :
       /\ areq'[r].email # "e1"
       /\ areq'[r].op = "create" => \A q \in AccountRequests \ {r} : areq'[q].step = "idle"

\* Failed calls and their recordings; the last call is not retried.
JustRecordings ==
  /\ state' \notin {"COMPLETED", "DEFERRED"}
  /\ call = MaxCalls => retrying' = "no"
  /\ \A c \in Calls :
       /\ "user" \in jobs'[c] \/ jobs'[c] \subseteq {"save"}
       /\ "user" \in jobs[c] => jobs'[c] # {}

\* Callbacks, finalizers and savers, and nobody asks for a recording; Twilio has
\* a verdict only on the first call.
SavingOnly ==
  /\ JustRecordings /\ reader' = reader
  /\ \A c \in Calls : c > 1 /\ c \in verdicts => c \in verdicts'

\* Requests for recordings; every call has a transcript and a recording, its
\* recording callback comes before the next call or never, its status callback
\* never; savers do not fail, and each listener asks once per call.
ListeningOnly ==
  /\ JustRecordings
  /\ session'.uri \in {0, session'.call} /\ callbacks' \subseteq {call'} /\ verdicts \subseteq verdicts'
  /\ \A c \in Calls : ending'[c].step = "saved" => session'.lines # {} /\ session'.uri # 0
  /\ \A c \in Calls : "save" \in jobs[c] /\ saver[c].step # "store" => saver'[c].step # "over"
  /\ \A l \in Listeners : RequestRecording(l) => reader[l].row.call < call

\* One call, with the notices of it and the saver beside them, and its retry.
NoticesOnly == reader' = reader /\ call' <= 1

-----------------------------------------------------------------------------
BridgePart    == part = "bridge" /\ BridgeNext
MediaPart ==
  \/ part = "sound" /\ MediaNext /\ SoundOnly
  \/ part = "words" /\ MediaNext /\ WordsOnly
DialogPart    == part = "dialog" /\ DialogNext
LimiterPart   == part = "limiter" /\ LimiterNext
ListenersPart == part = "listeners" /\ ListenersNext /\ ListenersOnly
FilesPart     == part = "files" /\ FilesNext
CatalogPart   == part = "catalog" /\ CatalogNext /\ NamesOnly
IntakePart ==
  \/ part = "quota"    /\ IntakeNext /\ QuotaOnly
  \/ part = "schedule" /\ IntakeNext /\ ScheduleOnly
  \/ part = "slots"    /\ IntakeNext /\ SlotsOnly
AccountsPart ==
  \/ part = "addresses" /\ AccountsNext /\ AddressesOnly
  \/ part = "resets"    /\ AccountsNext /\ ResetsOnly
  \/ part = "activity"  /\ AccountsNext /\ ActivityOnly
PostCallPart ==
  \/ part = "saving"    /\ PostCallNext /\ SavingOnly
  \/ part = "listening" /\ PostCallNext /\ ListeningOnly
  \/ part = "notices"   /\ PostCallNext /\ NoticesOnly

\* TaskIntake's variables without TemplateCatalog's.
ordersVars == <<orders, ireq, otherVars>>

ServicesNext ==
  /\ UNCHANGED part
  /\ \/ BridgePart    /\ UNCHANGED <<mediaVars, dialogVars, limiterVars, listenerVars, fileVars, intakeVars, accountVars, postCallVars>>
     \/ MediaPart     /\ UNCHANGED <<bridgeVars, dialogVars, limiterVars, listenerVars, fileVars, intakeVars, accountVars, postCallVars>>
     \/ DialogPart    /\ UNCHANGED <<bridgeVars, mediaVars, limiterVars, listenerVars, fileVars, intakeVars, accountVars, postCallVars>>
     \/ LimiterPart   /\ UNCHANGED <<bridgeVars, mediaVars, dialogVars, listenerVars, fileVars, intakeVars, accountVars, postCallVars>>
     \/ ListenersPart /\ UNCHANGED <<bridgeVars, mediaVars, dialogVars, limiterVars, fileVars, intakeVars, accountVars, postCallVars>>
     \/ FilesPart     /\ UNCHANGED <<bridgeVars, mediaVars, dialogVars, limiterVars, listenerVars, intakeVars, accountVars, postCallVars>>
     \/ CatalogPart   /\ UNCHANGED <<bridgeVars, mediaVars, dialogVars, limiterVars, listenerVars, fileVars, ordersVars, accountVars, postCallVars>>
     \/ IntakePart    /\ UNCHANGED <<bridgeVars, mediaVars, dialogVars, limiterVars, listenerVars, fileVars, accountVars, postCallVars>>
     \/ AccountsPart  /\ UNCHANGED <<bridgeVars, mediaVars, dialogVars, limiterVars, listenerVars, fileVars, intakeVars, postCallVars>>
     \/ PostCallPart  /\ UNCHANGED <<bridgeVars, mediaVars, dialogVars, limiterVars, listenerVars, fileVars, intakeVars, accountVars>>

\* Each module's fairness, of the part that runs.
ServicesFairness ==
  /\ WF_bridgeVars(part = "bridge" /\ Loop)
  /\ WF_bridgeVars(part = "bridge" /\ DrainEnds)
  /\ WF_bridgeVars(part = "bridge" /\ BackupFires)
  /\ WF_bridgeVars(part = "bridge" /\ IdleFires)
  /\ WF_bridgeVars(part = "bridge" /\ DurationFires)
  /\ WF_dialogVars(part = "dialog" /\ Manager)
  /\ \A s \in Sockets : WF_listenerVars(part = "listeners" /\ HandlerStep(s))
  /\ \A e \in Emitters : WF_listenerVars(part = "listeners" /\ EmitterStep(e))
  /\ \A c \in Calls : WF_postCallVars(part = "notices" /\ Processor(c) /\ NoticesOnly)

ServicesSpec == ServicesInit /\ [][ServicesNext]_services /\ ServicesFairness

\* The types of all parts.
ServicesTypeOK ==
  /\ part \in Parts
  /\ BridgeTypeOK /\ MediaTypeOK /\ DialogTypeOK /\ LimiterTypeOK /\ ListenersTypeOK /\ FilesTypeOK
  /\ CatalogTypeOK /\ IntakeTypeOK /\ AccountsTypeOK /\ PostCallTypeOK

=============================================================================
