SPECIFICATION ServicesSpec
CONSTANTS
  MAX_SILENCE_NUDGES = 3
  MaxAnswers = 3
  MaxSpeech = 1
  Items = {"a1", "a2", "u1"}
  UserItems = {"u1"}
  NoItem = "none"
  MaxChunks = 3
  MaxLines = 3
  MAX_CALL_RETRIES = 2
  CALL_ANSWER_TIMEOUT_SECONDS = 2
  MAX_DIALOG_TURNS = 2
  MAX_RETRY_ON_NOISE = 2
  LLM_MAX_RETRIES = 2
  Clients = {c1, c2, c3}
  MaxRequests = 2
  Window = 3
  MAX_TRACKED_IPS = 1
  SWEEP_EVERY_REQUESTS = 2
  MaxTime = 6
  Listened = {k1}
  Sockets = {s1, s2}
  TaskOf <- MCTaskOf
  Emitters = {h1, h2}
  EmitsFor <- MCEmitsFor
  MaxEvents = 3
  FileIds = {f1, f2}
  Contents = {x1, x2}
  FileRequests = {g1, g2}
  TemplateIds = {i1, i2}
  Names = {n1, n2}
  Slots = {slot}
  CatalogRequests = {q1, q2}
  Callers = {u, adm}
  Admins = {adm}
  Phones = {p1, p2}
  TaskIds = {t1, t2, t3}
  Instants = {m1, m2}
  IntakeRequests = {r1, r2}
  MAX_CALLS_PER_PHONE_PER_DAY = 1
  MAX_CALLS_PER_USER_PER_DAY = 1
  UserIds = {"u1", "u2"}
  Emails = {"e1", "e2"}
  Founders <- MCFounders
  AccountRequests = {a1, a2}
  MaxSecond = 2
  MaxCalls = 2
  Listeners = {l1}
INVARIANTS
  ServicesTypeOK
  HangsUpOnce HangupHasOutcome HangupInHand
  TranscriptIsFaithful
  DialogIsBounded FutureHasReader AnswersHeardOnce MarkerEndsDialog WorkerCallIsDeaf
  WindowRespected MapIsBounded
  EventsInOrder
  RowsHaveFiles DiskIsAccountedFor
  NamesAreUnique
  QuotasHold ScheduleAgrees SlotsAreFilled
  EmailsAreUnique
  LocalFileIsTheCalls AudioIsOfItsCall
PROPERTIES
  CallIsBounded DrainPlaysOut
  DialogEnds BrokenClientsLeave WebhookIsPosted
  LinksWorkOnce NoCallIsOrphaned
CHECK_DEADLOCK FALSE
