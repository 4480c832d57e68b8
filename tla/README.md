# Quiet Call AI: verification project

TLA+ models of the Quiet Call AI backend, the TLC runs that check them on small
instances and the theorems about them that TLAPS proves for every instance.
Source paths below are relative to `src/`.

The backend makes phone calls for its users. A *task* says whom to call and what
to achieve; it is called at once, at a scheduled time, or again after a failure.
Two processes do this on the same PostgreSQL database, without a lock manager
or a queue between them:

- the **API process** (`app/main.py`): request handlers, background executions
  they start, Twilio's webhooks, and the WebSocket that carries a call's audio
  between Twilio and OpenAI;
- the **worker process** (`app/worker.py`): one polling loop that executes due
  tasks, retries failed ones and fails those that hang.

What can go wrong is almost all in how these meet: every handler is a sequence
of awaits around separate database commits, and all but one of the commits
write what the handler decided on an earlier read.

## 1. Inventory

| Component | State it keeps | Operations | What is hard |
|---|---|---|---|
| Task store (`modules/tasks/models.py`, `repository.py`, `modules/calls/*`) | `task` rows: status, scheduled_time, error_reason, retry_count, next_retry_at, updated_at; `call_session` rows, UNIQUE per task; `log_line` rows | unconditional UPDATE of changed columns, conditional `claim_for_execution`, insert and delete of a `call_session` | lost updates, stale ORM instances, unique violations that poison the ORM session |
| Task endpoints (`modules/tasks/service.py`, `views.py`) | none of their own | create, edit, cancel, retry, execute, duplicate, rate | they test a status, await, and write |
| Call executors (`integrations/realtime_call_manager.py`, `call_manager.py`, `scheduler/task_executor.py`, `core/concurrency.py`) | a semaphore per process | claim, create the session, dial; on the legacy path also the dialog and its result | two of them for one task; failure between two commits |
| Scheduler (`modules/scheduler/service.py`) | the lists it selected | due tasks, backoff windows, retries, janitor | lists worked off long after they were selected |
| Twilio webhooks (`modules/webhooks/views.py`) | none | status, machine detection, recording, gather | late or lost callbacks that carry only the task id |
| Media stream (`modules/webhooks/realtime_ws.py`) | the bridge of the call | start, run the bridge, finalize | finalize is three commits on rows others delete and write |
| Realtime bridge (`integrations/realtime_bridge.py`) | outcome, hang-up flags, timers, mark queue, transcript order | two pumps, barge-in, idle and duration timers, hang-up | timers and events racing for the outcome and the hang-up |
| Legacy dialog (`integrations/call_manager.py`, `twilio_adapter.py`, `openai_adapter.py`, `conversation.py`, `core/retry.py`) | futures of gather results per process, the conversation's lines and counts | place, wait for the answer, say and gather, detect intent, hang up | late answers and the process they reach; retries of `calls.create`, which is not idempotent |
| Task intake (`TaskService.create_task`, `edit_task`, `rate_task`) | none | templates and slots, daily quotas per phone and user, edits of a loaded row | count, then insert; write over a row that has moved on |
| Call listening (`core/ws_manager.py`, `calls/ws.py`) | listeners per task | subscribe, emit, drop the dead | the set changes while it is sent to; several coroutines emit for one task |
| Rate limiter (`core/rate_limit.py`) | windows per client | admit and sweep | boundaries, eviction |
| Templates, users, auth, admin (`modules/templates`, `users`, `auth`, `admin`) | rows | CRUD, activation, password reset, soft delete | check then act on columns that are not UNIQUE |
| Files (`modules/files`) | rows, and files on disk | upload, delete | disk and row apart |
| Notifications and reports (`modules/notifications/*`, `calls/service.py`) | recordings on disk, a cache of demo audio | e-mail, webhook and recording after a call; serving its audio | file and cache are named after the task, not after the call |
| Prompts, pricing, audit, feedback, configuration | none | pure functions, queries and records nobody reads back | - |

How they interact: request handlers and the worker call the executors; the
executors ask Twilio for a call whose callbacks and media stream come back to
the API process with nothing but the task id; the media stream runs the bridge
and finalizes; everything else is communicated through the `task` and
`call_session` rows.

What makes the core correct: one attempt at a time and one confirmed call per attempt;
no task left IN_PROGRESS, overdue or waiting for a retry that never comes; no
more retries than allowed; no component ending an execution of another that is
still under way. `PROJECT.json` lists the hazards line by line, and which
property watches each.

## 2. Modules

```
TaskStore           rows, ORM commits, clock classes
  Telephony         calls, media stream, finalize, callbacks
    CallExecution   both managers, semaphore, worker's except-branch
      TaskApi       edit, cancel, retry, execute
      Scheduler     the worker's tick
        QuietCall   both processes, crashes, fairness: Spec, FairSpec
          QuietCallProperties   what is checked     -> CallLedger (abstract)
            MCQuietCall         instances for TLC
          QuietCallProofs       type correctness
            SchedulerProofs     retry limit, janitor
              CallProofs        refinement of CallLedger, claim, semaphore

MCServices            the services below, side by side, for TLC
  RealtimeBridge      outcome, timers and hang-up   BridgeProofs
  BridgeMedia         sound, marks and words        BridgeProofs
  GatherDialog        one legacy call               DialogProofs
  RateLimiter         request windows               ServiceProofs
  CallListeners       WebSocket listeners           ServiceProofs
  FileStore           disk and rows                 ServiceProofs
  TemplateCatalog     dialog templates              IntakeProofs
    TaskIntake        creation, edits, quotas       IntakeProofs
  Accounts            users, links, administrators  AccountProofs
  PostCall            recordings and notices        ServiceProofs
  ServiceProofs       also their composition: it extends MCServices and the
                      other proof modules of the services
```

| Module | Variables | Actions and the code they are |
|---|---|---|
| `TaskStore` | `task`, `session`, `data`, `issued` | row operations used by the others: `claim_for_execution`, `CreateSession`, `DeleteSession`, `SetStatus`; three clock actions |
| `Telephony` | `call` | `Answer`, `StreamRejected`, `RingOut`, `BridgeEnds`, `StrayEnds` (Twilio and the bridge); `FinalizeLoad`, `FinalizeSave`, `FinalizeStore` (`_finalize_call`); `CallbackLoad`, `CallbackStore`, `EndedCallback` (webhooks) |
| `CallExecution` | `exec` | `Acquire`, `Load`, `Claim`/`Seize`, `Create`/`CreateFails`, `Dial`/`DialRaises`/`DialFails`, `TalkEnds`/`TalkFails`, `StoreResult`, `Overrule` |
| `TaskApi` | `req`, `asked` | `LoadForRequest`, `Reschedule`, `Unschedule`, `Cancel`, `CleanUp`, `Reopen`, `Execute` |
| `Scheduler` | `worker` | `GetDueTasks`, `TakeDue`, `Promote`, `ScheduleRetryWindows`, `GetRetryableFailedTasks`, `TakeRetryable`, `MarkForRetry`, `ExecutionReturns`, `FindStuck`, `FailStuck` |
| `QuietCall` | `crashes` | `ApiCrash`, `WorkerCrash` and the composition |
| `RealtimeBridge` | 19 of its own | `Connect`, `InitFails`, `RunEnds` (`run`); `AudioDone`, `TranscriptDone`, `ResponseDone`, `SpeechStarted`, `ReportOutcome`, `Acknowledged` (the pump); `IdleFires`, `DurationFires` (timers); `DrainEnds`, `BackupFires` (hang-up); `ResponseStarts`, `RequestRejected`, `OpenAICloses`, `CalleeHangsUp` (environment) |
| `BridgeMedia` | `chunks`, `marks`, `buffered`, `returned`, `drain`, `order`, `transcript`, ... | `ForwardAudio`, `AppendMark`, `BargeIn`, `MarkPlayed`, `MarkCleared` (audio and marks); `ItemCreated`, `AgentText`, `UserText` (transcriptions); `DrainBegins`, `MarksDrained`, `DrainHangsUp` |
| `GatherDialog` | `phase`, `line`, `gather`, `posted`, `future`, `answer`, `lines`, `callee_said`, ... | `DialAccepted`, `DialRaises`, `Poll...` (placing a call); `Opened`, `IntentDetected`, `Replied`, `TransientError`, `OpenAIRaises` (OpenAI); `Updated`, `UpdateRaises`, `GatherReturns` (say and gather); `SetGatherResult` (webhook); `HangUp`, `Recording...`, `Summarised`; the callee |
| `RateLimiter` | `requests`, `sinceSweep`, `now` | `Request`, with or without a sweep |
| `CallListeners` | `handler`, `connections`; of each emitter `events`, `targets`, `failing`; `received`, ... | `Reject`, `Accept`, `Enlist`, `Notices`, `Leave` (`call_status_ws`); `Emit`, `Send`, `SendFails`, `DropFailed` (`emit`); `LoopCancelled` (the bridge cancels its loops) |
| `FileStore` | `disk`, `rows`, `freq`, `owner`, ... | `Upload`, `FindDuplicate`, `WriteToDisk`, `LoadOwner`, `InsertRow`; `Delete`, `FindRow`, `Unlink`, `EraseRow`; `DeleteOwner`, `Abort` |
| `TemplateCatalog` | `catalog`, `creq` | `Ask...`, `LoadTemplate`, `NameIsFree`/`NameIsTaken`, `InsertTemplate`, `UpdateTemplate` |
| `TaskIntake` | `orders`, `ireq`, `promoting` | `Create`, `Duplicate`, `DuplicateTemplate`, `CountPhone`, `CountUser`, `InsertTask`; `Edit`, `CheckSlots`, `Rate`, `WriteTask`; `Elsewhere`: `TakenAsDue`, `Promoted`, `NotPromoted` (`transition_task`), claim, end, cancel, retry |
| `Accounts` | `users`, `gone`, `calls`, `links`, `second`, `areq` | `Register`, `Call`, `Confirm`, `LoadUser`, `CheckCalls`, `EmailIsFree`/`EmailIsTaken`, `InsertUser`, `UpdateUser`, `EraseUser`, `CommitFails`, `AnswerProfile`; `AskForLink`, `Executors`, `Tick` |
| `PostCall` | `session`, `verdicts`, `ending`, `jobs`, `saver`, `recording`, `cache`, `reader`, ... | `PlaceCall`; `FinalizeLoad`, `FinalizeSave`, `FinalizeRaises`, `FinalizeStore` (`_finalize_call`); `NotPickedUp`, `MachineDetected`, `RecordingCallback` (webhooks); `AskRetry`, `DeleteLines`, `DeleteSession`, `RetryRaises`, `Requeue` (`retry_task`); `LoadRecipient`, `SendNotification`, `SendTaskWebhook`, `Saver...` (`process`); `RequestRecording`, `ReadLocal`, `FetchFromTwilio`, `ServeCached`, `LoadTranscript`, `GenerateDemoAudio` |
| `CallLedger` | abstract | `OpenAttempt`, `StrikeAttempt`, `PlaceCall` |

### How code becomes steps

A handler is split exactly at the awaits at which another handler can commit
something it reads or writes. What it loaded before the split is kept in its
record (`req[q].status`, `call[t][a].status`, `worker.list`), and its later
commit is written the way SQLAlchemy writes it: sessions are opened with
`expire_on_commit=False` and the database is at READ COMMITTED, so an UPDATE
names the columns whose value differs from the *loaded* one and tests nothing
about the row (`Dirty`). Three consequences are modelled because the system's
behaviour depends on them:

- The one conditional statement, `claim_for_execution`, is an ORM-enabled
  UPDATE: it sets the loaded instance to IN_PROGRESS even when it matched no
  row, and a later SELECT in the same session returns that instance. This is
  what a worker that lost the claim tests in its except-branch (`Refused`,
  `Overrule`).
- A violated UNIQUE or a row that has vanished at a flush leaves the session
  unusable. The except-branches that follow in the same session fail too, so
  `CreateFails` and the second half of `TalkEnds` store nothing.
- Columns that were loaded with the value they get are not written: the
  janitor keeps an error it loaded (`worker.blank`), an edit to SCHEDULED of a
  SCHEDULED task writes no status.

### Placing a call

`initiate_call` tries `calls.create` up to `MAX_CALL_RETRIES` times. A try is a step
of its own: it returns with a SID (`Dial`), or it raises (`DialRaises`, and
`DialFails` for the last one). A try that raises has placed no call, or, if
`RepliesMayBeLost`, one whose answer was lost (`TryRaises`). A call is named by its
attempt and its try, so the second ring is a second call: on the realtime path it
rings like any other and its media stream serves the task; on the legacy path it
is `stray`, connected with nobody to talk. A legacy call becomes `stray` too when
its dialog raises, as the except-branch does not hang up, and when the process of
its executor dies; `StrayEnds` is the end of its instructions or its callee.

### The bridge

`RealtimeBridge` is the inside of the action `BridgeEnds` of `Telephony`, which
lets a call end with any outcome. The bridge has state nobody else sees until
`run` returns, so the two are kept apart. All its coroutines share one event
loop; a step is what runs between two awaits, and the one await in the middle of
something, between storing a reported outcome and marking the hang-up pending,
is a state of its own (`acking`): both timers may fire in it. Who asked for the
response OpenAI is speaking (`response.kind`) is not in the code. The properties
need it: the code takes every end of audio while a hang-up is pending for the
end of the farewell. A drain may end at any time there, as its deadlines allow.

What a drain waits for is in `BridgeMedia`: the chunks Twilio holds, the marks it
sends back, a queue from which a returning mark takes the oldest entry whichever
it is, the barge-in that clears both, and the texts that OpenAI sends out of
order. The pump is suspended between sending a chunk and appending its mark, so
the mark may come back in between. The two modules share the event that begins a
drain and no variable. Tokens, timestamps and how much of an item a truncation
keeps are left out.

### The legacy dialog

`GatherDialog` is the inside of `TalkEnds` and `TalkFails` of `CallExecution`: one
call from its dial to its verdict. A line is its kind (plain, a marker, an
apology, a farewell after noise), an answer is the number of the line it answers
and whether it has words. The webhook reaches the API process, so an answer finds
a future only if the call's `home` is that process; `scheduler/task_executor.py`
runs the same manager in the worker. `async_retry` is a count of tries for
OpenAI and, in `DialRaises`, for Twilio, where a request that raised may have
been carried out.

### After a call

`PostCall` follows the row and the files of one task over several calls. The
status callbacks and the finalizer know the task and not the call: a machine's
callback fails the task while its call goes on, a retry may then delete the row and
a second call create another one before the first call's finalizer has begun, and
that finalizer tests no status. What it loaded is in `ending` and `saver`; where
the row it loaded has gone its flush raises (`FinalizeRaises`), and where it found
the next call's row it writes into that (`late`). Its two commits, of the lines and
of the row, are one step, since a step between them would only show lines without
an address.

### Listeners

Whoever emits awaits its own event before its next one; nothing orders two
emitters, and `emit` sends outside the lock. So the events are numbered per
emitter, and order is promised per emitter. The bridge cancels the loop that has not
ended, which stops a broadcast between two clients, or between a failed send and
the removal it calls for (`LoopCancelled`).

### The services

The other modules have no state in common with the core, or use a small part of
it in a form of their own (`TaskIntake` sees of a task's life only what the row
shows, `PostCall` one task whose calls follow each other). Requests there are
steps between awaits, as in the core: each query and each commit is one, and a
commit writes the columns the request has changed over whatever row is there
(`Merged`, `RowAfter`). Where a property holds only without a race, the race is
a history variable of the module, set at the commit that another one has
overtaken (`contested`, `tangled`, `overtaken`, `late`, ...): the property says
that nothing else leads there. A race begins with the request: a commit of another
request since then counts, also one from before this request's own query.

### What the data are

A time is a class (null / future / due; null / waiting / elapsed; fresh / old),
an error text is a class (none, plain, network = any retryable keyword, init =
tagged REALTIME_INIT_FAILED, cancelled), and an attempt is the number of its
`call_session` row. `issued` and `data` are history: how many rows were ever
created, and which attempts have written into the row a task has now.
Transcripts, summaries, durations, tokens and all wording are left out, ratings
and edits of other fields are in `TaskIntake`; `_finalize_call`'s two SELECTs are one step, because
what they load is tested only later. `ScheduleRetryWindows` is one step although
the code commits per task: nobody else writes `next_retry_at`, and each task's
status is read again right before its window is set. `CleanUp` and `DeleteSession`
of the core merge two commits, of the log lines and of the row, as log lines are
not in the core; `PostCall` has them apart (`DeleteLines`, `DeleteSession`), and
`RetryRaises`, where lines have come in between.

## 3. Properties and runs

The runs of the core instantiate `QuietCall` through `MCQuietCall`; a `.cfg` is a
scenario. `farewell` checks `RealtimeBridge` itself. `services` and `reauth` run
`MCServices`: a behaviour of it is one of its parts (`part`), that is a behaviour
of one module while the variables of the others stay as they begin, so the
properties of ten modules are checked in one run and none of them multiplies the
states of another.

| Run | Checks | Shows |
|---|---|---|
| `lifecycle` | `TypeOK`, `ImplementsLedger` | one task through every kind of request, callback and realtime outcome, an OpenAI init failure that moves the worker to the legacy path, answers of Twilio that are lost, and a crash of either process |
| `legacy` | `ImplementsLedger` | the ledger on the configured legacy path, whose claim is an unconditional write, with schedules and lost answers |
| `two_tasks` | `RetryBound`, `RetryListFresh` | the worker's lists with two tasks and a limit of two retries |
| `clicks` | `ClaimExclusive` | three clicks and cancels, two background executions and the worker for one unscheduled task |
| `liveness` | `StuckResolved`, `DuePickedUp`, `RetryableReopened`, `JanitorSparesRunning` | with fair event loops, and a crash at any point, no task stays IN_PROGRESS, due or retryable; the janitor that sees to the first never fails a running realtime execution |
| `overrule`, `auto_retry`, `call_cap`, `two_calls` | one property each | behaviours in which the code does not do what a comment or the README says (section 6) |
| `services` | the table below, and `ServicesTypeOK` | the services, each with its own races and failures |
| `farewell` | `WatchdogSaysFarewell` | the watchdog's drain may begin with the end of an ordinary sentence (section 6) |
| `reauth` | `EmailChangeIsAnnounced` | who changes their address is not asked to log in again (section 6) |

What `services` checks:

| Module | Properties | Show |
|---|---|---|
| `RealtimeBridge` | `HangsUpOnce`, `HangupHasOutcome`, `HangupInHand`, `CallIsBounded` | every order of events, speech, timers and closures: whoever decides leaves a hang-up that needs no OpenAI, Twilio is asked once, and the call ends |
| `BridgeMedia` | `TranscriptIsFaithful`, `DrainPlaysOut` | the stored transcript has every line once and in order; a drain within its deadline goes on when everything has been played, unless a barge-in made marks ambiguous |
| `GatherDialog` | `DialogIsBounded`, `FutureHasReader`, `AnswersHeardOnce`, `MarkerEndsDialog`, `WorkerCallIsDeaf`, `DialogEnds` | a dialog with late, lost or silent answers and errors at every step is bounded and ends; a worker's dialog cannot hear |
| `RateLimiter` | `WindowRespected`, `MapIsBounded` | the limit across sweeps, and the size of the map between them |
| `CallListeners` | `EventsInOrder`, `BrokenClientsLeave` | listeners that come, go and break in the middle of the events of two emitters, one of which may be cancelled |
| `FileStore` | `RowsHaveFiles`, `DiskIsAccountedFor` | row and disk after a failure at any step |
| `TemplateCatalog` | `NamesAreUnique` | names clash only through a race or a restore |
| `TaskIntake` | `QuotasHold`, `ScheduleAgrees`, `SlotsAreFilled` | by how much concurrent creations exceed a quota; what edits leave of a row that others write and the worker promotes |
| `Accounts` | `EmailsAreUnique`, `LinksWorkOnce`, `NoCallIsOrphaned` | addresses, reset links and deactivation under overlapping requests |
| `PostCall` | `LocalFileIsTheCalls`, `AudioIsOfItsCall`, `WebhookIsPosted` | whose recording is stored and served after a retry, with finalizers, savers and callbacks that come late; the webhook whatever else fails |

`HangupInHand` is what makes the early returns of the bridge safe: the watchdog
and a second `report_outcome` do nothing when they find an outcome, which is
right only if whoever set it has also armed the backup timer.

`ImplementsLedger` is the main safety property. `CallLedger` is the promise: an
attempt is opened only while none stands, and only a user's retry makes room for
another; the calls of an attempt are placed one after the other,
`MAX_CALL_RETRIES` at most, and none after one whose SID has come back. Two calls of
an attempt are possible, as the code tries `calls.create` again after a lost
answer; the ledger says that nothing else leads to one. The refinement mapping is
`standing <- session`, `opened <- issued`, `placed <- ` the calls that were
placed, `confirmed <- ` those whose SID was returned. It holds although several
executors can be past the claim at once (section 6): the UNIQUE constraint on
`call_session.task_id` is what it rests on. The mutant that drops it breaks it, and
so does one whose loop goes on after a call has been confirmed. A status written
over a claim is not in the ledger: `ClaimExclusive`, `OverruleOnlyUnclaimed` and
`JanitorSparesRunning` are about that.

`ClaimExclusive` is for tasks without a schedule and without manual retries. For
a scheduled one it fails, since `transition_task` or an edit writes PENDING over a
claim that came after its read; with a manual retry that overlaps another, or an
automatic one, it fails since the later of the two commits PENDING over the claim
of the execution that the earlier one has allowed.

`JanitorSparesRunning` is about realtime executions; the legacy path does not
stamp `updated_at` and is not spared. Nor is an execution that begins between the
sweep's SELECT and its commit, for which a late adverse callback has to fail the
task and its user to retry it in that time; `liveness` has no such callbacks.

### Bounds

| Bound | Meaning | Why it is enough |
|---|---|---|
| `Tasks` | 1, 2 in `two_tasks`, 3 in `call_cap` | rows of different tasks are only joined by the worker's lists and the semaphore |
| `Runs` | 1 to 2 concurrent background executions | two and the worker give every pair of executors |
| `Requests`, `MaxRequests` | 1 at a time, 1 to 3 in all | a request is one load and one or two commits. A second one at once adds overlapping retries and edits, which undo claims (above) |
| `MaxAttempts` | `call_session` rows per task | `MaxRequests < MaxAttempts` (an assumption), and only a retry request makes room for a row, so the bound never stops anything |
| `MAX_CALL_RETRIES`, `RepliesMayBeLost` | 2 tries whose answers may be lost in `lifecycle` and `legacy`; elsewhere 1, answered | the ledger is what tries can break; the others are about claims, lists and statuses. `OneLiveCall` fails at once when an answer is lost, so its run has none. The code has 3, the theorems are for any number |
| `MAX_RETRY_ATTEMPTS` | 1 or 2, the code has 4 | the limit is reached in both; the theorem is for any number |
| `MaxCrashes` | 0 or 1 | one crash anywhere, between any two steps |
| `CallbackKinds`, `Kinds`, `InitMayFail`, `CreatedWith` | which of the environment's choices a scenario has | all of them in `lifecycle`; fewer where the question does not need them |
| `MAX_SILENCE_NUDGES` | 3, as in the code | |
| `MaxAnswers`, `MaxSpeech` | 3 responses and 1 interruption in a call (in `farewell` too) | an opening line, one more and a farewell: every way to a hang-up; afterwards OpenAI is silent, and the nudges go on to the third. The theorems are for any number |
| `MaxChunks`, `MaxLines`, `Items` | 3 chunks, 3 texts, 2 items of the agent and 1 of the callee | one chunk being sent, one at Twilio and one cleared; an item with two texts and one without an item |
| `MAX_DIALOG_TURNS`, `MAX_RETRY_ON_NOISE`, `MAX_CALL_RETRIES`, `LLM_MAX_RETRIES`, `CALL_ANSWER_TIMEOUT_SECONDS` | 2 each | each limit is reached, and one below it; the theorems are for any number |
| `MaxRequests`, `Window`, `MAX_TRACKED_IPS`, `SWEEP_EVERY_REQUESTS`, `MaxTime` of the limiter | 2, 3, 1, 2, 6 | two windows follow each other, with sweeps in both and three clients for one place |
| `Sockets`, `Emitters`, `MaxEvents` | 2 listeners and 2 emitters of one task, 3 events of one, or 2 and 1 (`ListenersOnly`) | one listener breaks while the other is served by two broadcasts; three events show a gap |
| `FileIds`, `FileRequests`, `CatalogRequests`, `IntakeRequests`, `AccountRequests` | 2 each | one race needs two requests |
| daily limits, `TaskIds`, `Phones`, `Callers` | 1, 3 tasks, 2 phones, a user and an administrator | a limit of one is exceeded by one: two requests |
| `MaxSecond`, `MaxCalls`, `Listeners` | seconds 0 to 2, 2 calls, 1 listener (1 call in `notices`) | a link before, in and after the second of a change; a call and the one after its retry |

`MCServices` splits four modules further (`sound`/`words`, `quota`/`schedule`/`slots`,
`addresses`/`resets`/`activity`, `saving`/`listening`/`notices`). A part has all
steps of its module and only the requests that bear on one property; what it
leaves out is a predicate named `...Only`. `schedule` and `slots` have one task, made
by the first request and edited by two at once; `saving` has the
callbacks (a verdict only on the first call), both finalizers and both savers with all
their failures, without a listener; `listening`
has a listener, with callbacks on time and savers that do not fail; `notices` has
mail, webhook and the failing saver of one call and its retry. All actions and disjuncts of the
modules fire in one part or another.

### Fairness and time

`FairSpec` asks for weak fairness of the clock, of each call (Twilio reports an
end, the bridge returns, finalize runs), of each executor and request (coroutines
of an event loop that is not blocked) and of the worker's loop. Users, crashes
and callbacks get none: a callback may be lost, and the properties hold without
it. `Age` lets `updated_at` fall behind the janitor's cutoff of ten minutes only
while nothing for that task is under way, since a realtime call is ended after
`MAX_CALL_DURATION_SECONDS` (300) and every other step is short. This is an
assumption about the environment, and not a small one: a hang-up that Twilio
refuses is not tried again, and such a call could outlive the cutoff. Coroutines
queued for the semaphore are excluded from it.

`FairBridgeSpec` asks for weak fairness of the two timers, the drain and backup
tasks, and the coroutine that awaits (`Loop`). OpenAI and the callee get none: a
call is bounded although both go silent. `GatherDialog` asks it of the manager
only, all of whose awaits have a timeout; `CallListeners` of each handler and
each emitter; `PostCall` of each processor, whose downloads, mails and posts
have timeouts. None is asked of a client, a webhook or Twilio. `MCServices`
states the same conditions, each for the part it belongs to.

Deadlock is checked in every run of the core: the worker's loop always has a
next step. It is not in `farewell`, `services` and `reauth`, since a bridge stops
when its call is over, and the services when their bounds are reached.

## 4. Proofs

| Theorem | Module | Says |
|---|---|---|
| `TypeCorrect` | `QuietCallProofs` | `Spec => []TypeOK` |
| `CallsFollowLedger` | `CallProofs` | `Spec => ImplementsLedger` |
| `ClaimsExclude` | `CallProofs` | `ClaimScope`: `Spec => []ClaimExclusive` |
| `CallsDoNotOverlap` | `CallProofs` | no manual retries, no lost answers: `Spec => []OneLiveCall` |
| `SemaphoreCapsDialogs` | `CallProofs` | `Spec => []`(at most `MAX_CONCURRENT_CALLS + 1` legacy dialogs) |
| `RetriesAreBounded`, `ListedTasksHaveRetries` | `SchedulerProofs` | `Spec => []RetryBound`, `[]RetryListFresh` |
| `JanitorFailsNoRunningCall` | `SchedulerProofs` | `JanitorScope`: `Spec => JanitorSparesRunning` |
| `HangupOnce`, `HangupDecided`, `HangupAssured` | `BridgeProofs` | `BridgeSpec => []HangsUpOnce`, `[]HangupHasOutcome`, `[]HangupInHand` |
| `DrainsPlayOut`, `TranscriptsAreFaithful` | `BridgeProofs` | `MediaSpec => DrainPlaysOut`, `[]TranscriptIsFaithful` |
| `DialogStaysBounded`, `FuturesAreForgotten`, `MarkersEndDialogs`, `WorkerHearsNothing`, `NoAnswerHeardTwice` | `DialogProofs` | `DialogSpec => []DialogIsBounded`, `[]FutureHasReader`, `[]MarkerEndsDialog`, `[]WorkerCallIsDeaf`, `[]AnswersHeardOnce` |
| `TemplateNamesUnique` | `IntakeProofs` | `CatalogSpec => []NamesAreUnique` |
| `QuotaOverrunBounded`, `TasksWaitForTheirTime`, `TasksFillTheirSlots` | `IntakeProofs` | `IntakeSpec => []QuotasHold`, `[]ScheduleAgrees`, `[]SlotsAreFilled` |
| `AddressesAreUnique`, `ResetLinksWorkOnce`, `DeactivationSparesCalls` | `AccountProofs` | `AccountsSpec => []EmailsAreUnique`, `LinksWorkOnce`, `NoCallIsOrphaned` |
| `LimitHolds`, `MapStaysSmall` | `ServiceProofs` | `LimiterSpec => []WindowRespected`, `[]MapIsBounded` |
| `ClientsHearInOrder` | `ServiceProofs` | `ListenersSpec => []EventsInOrder` |
| `ListedFilesExist`, `StrayFilesExplained` | `ServiceProofs` | `FilesSpec => []RowsHaveFiles`, `[]DiskIsAccountedFor` |
| `SessionsHaveTheirFile`, `ListenersHearTheirCall` | `ServiceProofs` | `PostCallSpec => []LocalFileIsTheCalls`, `[]AudioIsOfItsCall` |
| `ServicesTypeCorrect` | `ServiceProofs` | `ServicesSpec => []ServicesTypeOK` |
| `ServicesKeepPromises` | `ServiceProofs` | `ServicesSpec` has every invariant and action property proved of a service alone |

So every invariant and every action property that a passing run checks is a
theorem; the liveness properties are not.

They hold for any sets of tasks, executors and requests and any bounds, from the
named assumptions on the constants (`TaskStoreAssumption`,
`TelephonyAssumption`, `ExecutionAssumption`, `ApiAssumption`,
`CrashAssumption`, `BridgeAssumption`, `MediaAssumption`, `DialogAssumption`,
`LimiterAssumption`, `ListenersAssumption`, `PostCallAssumption`,
`CatalogAssumption`, `IntakeAssumption`, `AccountsAssumption`), which TLC
evaluates in the runs. Only three theorems ask for more, and each of their
hypotheses is a setting of the deployment or a choice of the environment without
which TLC finds the property violated:

- `CallsDoNotOverlap`: no manual retries and no lost answers, on either path.
  `two_calls` has retries and refutes `OneLiveCall`; a lost answer is followed by a
  second ring beside the first.
- `RealtimeScope`, part of the next two: `USE_REALTIME_API`, and no OpenAI session fails
  to initialise. So no execution is on the legacy path, which claims by an
  unconditional write and does not stamp `updated_at`.
- `JanitorScope`: no late adverse callbacks, or no manual retries. With both, the
  task is failed, retried and claimed between the sweep's SELECT and its commit,
  and the janitor fails the new execution. `liveness` meets it.
- `ClaimScope`: users execute and cancel, and no task has a time: no schedule, no
  edit of one and no manual retry. Each of the three writes a status over a claim
  that came after its read. No answer of `calls.create` is lost either: the call
  that nobody knows of may end late and fail a task that has been claimed again.
  `clicks` meets it.

- **Types.** `TypeOK` is not inductive by itself. `TInv` adds what the pc of an
  executor, a request and the worker says about the fields that go with it: an
  executor past `idle` has a task, one past `create` has an attempt in range, a
  loaded request has a task, and so on. One lemma per component, one step per
  action.
- **Retry limit.** `mark_task_for_retry` adds one without looking, so the bound
  needs `RetryListFresh`: whoever is in the list the worker selected, or is
  about to be marked, is still below the limit. That needs in turn that a task
  in hand is no longer in the list (`OnceInList`), since otherwise one list
  could raise a count twice; and it is preserved because no other action
  raises a `retry_count`. The proof would fail for a second worker, which the
  worker's own documentation rules out (`app/worker.py:15`).
- **Ledger.** `AttemptInv` relates rows, executors and calls: an attempt that was
  never issued has no call; an executor that is to dial holds an attempt that was
  issued, none of whose calls has been confirmed, and has placed none of the tries
  from its present one on; no two executors hold the same attempt. With it each
  step of `QuietCall` is an `OpenAttempt`, a `StrikeAttempt`, a `PlaceCall` or a
  stutter of the ledger (`StepKinds`), and the initial states map to initial states.

- **Claim.** `ClaimInv` calls a task busy while an executor is between claim and
  dial with it or one of its calls is not finalized, and says that it has one such
  holder at most (`OneHolder`), cannot be claimed, and is nothing the worker picks:
  not stale, and not FAILED with an error that is retried. The last is what the
  automatic retry needs, whose commit is as blind as the others: a task that it has
  selected (`Chosen`) is neither busy nor claimable, so nobody can have claimed it
  by the time `mark_task_for_retry` reopens it. Most steps are `Harmless`: they
  begin nothing and reopen nothing.
- **Overlap.** `SingleInv`: without manual retries a task has one row for good, so
  by the ledger its calls are the tries of one attempt, and where every answer
  arrives a placed call is a confirmed one, after which none is placed.
- **Janitor.** `JanitorInv`: a task that is stuck, or that the sweep has selected, is
  engaged by nobody, neither execution, request nor call. Whoever takes a task up
  finds it claimable, or stamps `updated_at` with the claim (`Effect`), and `Age`
  does not pass while somebody is at it.

- **Semaphore.** The coroutines inside it are at most `MAX_CONCURRENT_CALLS`
  (`SemaphoreInv`: only `Acquire` lets one in). Each legacy dialog has a driver
  (`LegacyInv`): an executor that talks, with the dialog's task, attempt and try. So
  the dialogs are part of the image of the holders and the worker's executor, and
  their number is at most `MAX_CONCURRENT_CALLS + 1`. This is what the semaphore
  caps. It is no cap on connected calls on either path: a realtime executor leaves
  it at the dial (`call_cap`), and the line of a legacy dialog that raised stays up
  after its executor has left.
- **Bridge.** `BridgeInv` strengthens `HangupInHand` with where each step towards
  a hang-up comes from (`DecisionInv`: a pending flag, an acknowledgement, a
  drain, a backup timer, a hang-up all follow an outcome), with what
  `_hangup_done` counts (`CountInv`: the backup timer cannot have fired without
  it), and with the end of the timers and the pump together with the bridge
  (`LoopInv`: without it an idle timer could decide after the end). `HangupInHand`
  is not inductive without `CountInv`, as a fired backup timer is not armed.

- **Drain.** `MarksCover`: each chunk that Twilio holds has a mark in the queue, or
  is the one whose mark the pump is about to append, unless a barge-in has let a
  mark be taken for another (`stolen`). A drain that was not hurried goes on when
  the queue is empty.

- **Transcript.** `WordsInv`: an item is created once; it has a record once it has
  a line, and the record is one of its lines. What is stored is then the lines of the recorded
  items in the order of the items, followed by the others in the order of their
  arrival. Both lists are an increasing enumeration of a finite set of numbers
  (`Ascending`). That each finite set has one is an induction; it is carried out
  on a least counterexample (`WFMin`), as the induction theorem with an operator
  parameter is out of the provers' reach.
- **Dialog.** `DialogInv` relates the phase of the manager to what has been
  counted (`TurnsInv`: while the agent listens there is a turn for each line), to
  the future (`FutureInv`), to the last line (`MarkerInv`: who goes on has not
  said a marker) and, in the worker, to silence (`DeafInv`). `HeardInv` follows
  the number of an answer from Twilio through the webhook, the future and the
  manager's hand into the history: it is in one of these places at a time, and
  the line Twilio is being told to speak has no answer yet. It is this that
  rules out hearing an answer twice although a late one may end the wait for a
  later line. Steps that neither speak nor take an answer are one lemma.
- **Limiter.** `TrackedInv`: what was granted within the window is in the map,
  unless the cap has evicted the client. A sweep drops stale windows only, and
  those hold nothing recent (`StaleIsNotRecent`); the rest is counting.
- **Files.** `UploadInv` (a file being uploaded is on disk, has no row and belongs
  to one request) and `UnlinkedInv` (what a delete has unlinked does not come
  back, since names are fresh) make the two properties inductive.
- **Intake.** Names: what a request that nobody has overtaken has read is still
  true (`ReadOK`), so its write meets no other holder. Quotas: the tasks of a
  phone, and the requests that have counted them and not inserted yet, are
  together at most the limit minus one plus the number of requests
  (`QuotaInv`); a request that counts is admitted below the limit, and one that
  inserts turns from the second kind into the first (`BoundAdmits`,
  `BoundInserts`).
- **Times and slots.** A task that the worker has promoted keeps its time and is
  PENDING, between the two commits and, if the worker stops there, for good
  (`promoted`). `FormInv` says what a request in hand makes of a task: a new
  row waits for its time and fills the template it read; an edit sets the status
  together with the time or leaves both as loaded, and has looked at the slots if
  it changes them. A write over a row that has moved on is `tangled`.
- **Accounts.** What a request that nothing has overtaken has read still holds when
  it commits (`LoadedOK`: its row is as loaded, nobody else has the address, the user
  has no live call). `SpentOK`: no link that was used is newer than its user's
  `password_changed_at`, so a fresh look at it refuses the link; an older stamp
  committed late is the exception (`blurred`). The proofs ask of the constants that
  the users at the start have distinct addresses.
- **Listeners.** `StreamOK`, of a client and an emitter: what the client has received
  of it is consecutive and ends with the emitter's newest event, or with the one
  before if the client is still to be served; or the client is off the list, or
  broken, and is sent nothing more. `ClientOK` is what does not depend on the
  emitter: who is on which list. No other emitter's step touches a stream except by
  removing the client.
- **After a call.** Until a callback, finalizer or saver of an earlier call has
  worked on the next one's row, a saver whose call the row is of holds that row,
  what it has opened is empty, what it has written is its own recording (`SaverOK`),
  and what a reader goes by is of no call to come (`ReaderOK`). `late` is set where
  the code has no test for this.

- **Together.** A step of `ServicesSpec` is a step or a stutter of each service
  (`PartsStep`), whichever runs, and its bounds (`...Only`) only leave steps out; so
  its behaviours have the invariants of each (`TogetherAsAlone`, `ServicesInv`). The
  one exception are templates that change on their own: `TaskIntake` would note in
  `grown` which of them asks for more, and that part does not. There are no orders
  in it whose slots could be missing (`NoOrders`).

Only model-checked: the liveness properties `StuckResolved`, `DuePickedUp`,
`RetryableReopened`, `CallIsBounded`, `DialogEnds`, `BrokenClientsLeave` and
`WebhookIsPosted`, since the prover reasons neither about fairness nor about
ENABLED. The six runs that expect a violation stay with TLC too: each shows a
trace.

## 5. Plan

1. *(done)* The core: task life cycle across both processes, `CallLedger`, the
   runs above, type correctness, retry limit, refinement.
2. *(done)* `RealtimeBridge` and `BridgeMedia`: run, pump, outcome, timers, drain
   and backup hang-up, audio, marks and transcript.
3. *(done)* `GatherDialog`: the legacy dialog with its futures and retries.
4. *(done)* `TaskIntake`, `TemplateCatalog`, `RateLimiter`, `CallListeners`.
5. *(done)* `Accounts`, `FileStore`, `PostCall`.
6. *(done)* Theorems about the dialog, the limiter, files, names and quotas.
7. *(done)* Theorems about times and slots, accounts, recordings, listeners and
   drains; the claim and the janitor on the realtime path.
8. *(done)* Theorems about the order of the transcript, the types of the services, the
   services together, and the dialogs that the semaphore caps.
9. Left: the claim with manual retries. A single retry request at a time may still
   be overlapped by an automatic one, so `ClaimExclusive` needs a weaker form there.

## 6. Known divergences

Checked by a run that TLC must refute, with the trace:

- `overrule`: a worker that loses the claim marks the winner's task FAILED
  (`scheduler/task_executor.py:78`).
- `auto_retry`: an automatic retry keeps the failed attempt's `call_session` and
  fails on its UNIQUE key before it dials, unless the attempt failed before it
  had one (`scheduler/service.py:76`).
- `call_cap`: the realtime executor leaves the semaphore at the dial, so more
  calls are live than `MAX_CONCURRENT_CALLS` (`tasks/views.py:363`).
- `two_calls`: a task failed under its live call can be retried at once, and is
  then in two calls (`tasks/service.py:161`).

- `farewell`: when the watchdog fires while the agent is speaking, the end of that
  sentence starts the drain and the farewell may never be heard
  (`realtime_bridge.py:408`).
- `reauth`: `update_profile_view` compares the new address with `current_user.email`
  after the service has set that attribute on the same object; nobody who changes
  their address is asked to log in again, and no notice is sent
  (`users/views.py:53`).

Seen in the models, without a run of their own:

- A task rescheduled after the due list was selected is called before its new
  time (`scheduler/service.py:131`).
- A cancel between claim and dial does not stop the call
  (`tasks/service.py:146`).
- A task cancelled, or failed at the dial, by callback or by the janitor, is not
  POSTed to the user's webhook, which the README promises for every terminal
  status (`webhooks/views.py:144`).
- The legacy path does not stamp `updated_at`: an old task's legacy call can be
  failed by the janitor while it runs (`call_manager.py:71`).
- `transition_task` can undo a claim (`scheduler/service.py:118`); so can a manual
  retry that overlaps another or an automatic one (`tasks/service.py:161`).
- A late adverse callback and a manual retry within one sweep of the janitor let it
  fail the new execution (`scheduler/service.py:78`).
- A task that fails between the windows pass and the list, or one that kept
  `next_retry_at` through a manual retry, is retried without its backoff
  (`scheduler/service.py:59`).
- A worker that stops between `mark_task_for_retry` or `transition_task` and the
  claim leaves the task PENDING, where nothing picks it up
  (`scheduler/service.py:78`).
- The media stream builds the prior-attempt context, which `README.md:49`
  describes, from a `call_session` that a manual retry has just deleted
  (`realtime_ws.py:157`, `tasks/service.py:180`).
- A late callback or finalize of an old attempt writes into the task, and the
  `call_session`, of the new one: after a machine was detected and the task retried,
  the first call's finalizer stores its recording in the second call's row, which
  then serves it (`realtime_ws.py:252`). A late machine detection overwrites DEFERRED.
- The idle timer's last nudge does not look at the outcome and overwrites a
  reported one (`realtime_bridge.py:588`); it is not stopped by a report either, so
  a nudge may follow the farewell.
- `response_start_timestamp_twilio` is reset by a barge-in only, so an interruption
  is measured from the start of an earlier response
  (`realtime_bridge.py:443`, `realtime_bridge.py:464`).
- A mark that comes back before the pump has appended it stays in the queue, and a
  drain waits for its deadline; so does one that waits for a transcription that
  OpenAI has reported as failed.
- Dialling again after a timeout may ring a callee twice, and the first call is then
  connected beside the second (`twilio_adapter.py:77`; `CallLedger` allows it and no
  more);
  `async_retry` around OpenAI never retries the SDK's own errors, which are not
  among the types it names (`core/retry.py`).
- The opening line is not tested for a marker; a rejected recording or summary
  turns an achieved call into a failed one, and an exception in the dialog leaves
  the call up while its executor leaves the semaphore (`call_manager.py:99`,
  `call_manager.py:127`; `TalkFails`).
- A legacy call in the worker process never hears the callee
  (`twilio_adapter.py:25`); `_call_languages` keeps its entries in spite of the
  comment above it.
- The limiter's docstring says the map is capped at `MAX_TRACKED_IPS`; between two
  sweeps it exceeds it (`rate_limit.py:59`).
- A listener that is slow to receive holds up the executor that emits, and two
  emitters' events may reach two listeners in different orders
  (`ws_manager.py:40`); an administrator's access token listens as a plain user's.
- A second upload of a content is answered with the first file's row, also when
  that file has been removed by a delete that failed half-way
  (`files/service.py:40`).
- `restore_template` does not look for the name, a missing template of a
  duplicated task is not handled, and a template that has come to require more
  slots leaves scheduled tasks without them (`templates/service.py:77`).
- A retry whose old call's finalizer adds lines between its two deletes fails on the
  foreign key, and the task stays as it was (`calls/repository.py:108`).
- An edit can move a task to a phone whose quota is used up
  (`tasks/service.py:114`); a manual retry keeps a rating and a `scheduled_time`.
- `user.email` is not UNIQUE; a reset link of the second in which the password
  changed is refused although it is newer; an older `password_changed_at` that is
  committed late makes a used link work again (`auth/views.py:98`); an
  administrator can change their own role through `PUT /users/{id}`, which
  `admin/views.py:118` refuses; a user with tasks cannot be deleted for good.
- DEFERRED calls are posted to the webhook, which its docstring does not say; a
  user who is not found, or has no address, is not posted to either, and the
  recording is not saved (`post_call.py:48`).

## 7. Not modelled

- **Data.** Prompt texts, audio samples and encodings, prices, reports, statistics
  and lists have no state of their own; audit and feedback records are appended
  and never read back; configuration, logging, health, migrations and seed data
  likewise. The demo seeds alone are a fifth of the code.
- **Time.** Deadlines are steps that may be taken at any time (a drain's, a wait's
  for an answer, a timer's) or classes of a timestamp; how long something takes is
  not a property here. In `RateLimiter` and `Accounts` time is a number.
- **Authentication** of requests and of Twilio's callbacks is assumed to succeed,
  but for the tokens of listeners (`CallListeners`) and reset links (`Accounts`).
- **Between the modules.** `GatherDialog` and the bridge are the inside of one action
  of the core and are not composed with it; `PostCall` places one call per attempt and has no executors: a dial is one
  step there, the core has its commits and tries. The coroutines of
  `post_call.process` share one database session; the model lets the saver's query
  fail for that, and takes the other queries to be atomic and to succeed.
- **Databases and libraries** are modelled as far as the code relies on them: READ
  COMMITTED, SQLAlchemy's commits of changed columns, UNIQUE and foreign keys,
  asyncio's single thread.
