SPECIFICATION Spec
CONSTANTS
  None = None
  Tasks = {t1}
  MaxAttempts = 2
  MAX_RETRY_ATTEMPTS = 1
  MAX_CALL_RETRIES = 2
  RepliesMayBeLost = TRUE
  InitMayFail = FALSE
  CallbackKinds = {}
  CreatedWith = {"none", "future"}
  Runs = {r1}
  Worker = w
  USE_REALTIME_API = FALSE
  MAX_CONCURRENT_CALLS = 1
  Requests = {q1}
  Kinds = {"reschedule", "unschedule", "cancel", "retry", "execute"}
  MaxRequests = 1
  MaxCrashes = 0
PROPERTIES
  ImplementsLedger
