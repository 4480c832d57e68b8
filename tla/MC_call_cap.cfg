SPECIFICATION Spec
CONSTANTS
  None = None
  Tasks = {t1, t2, t3}
  MaxAttempts = 4
  MAX_RETRY_ATTEMPTS = 1
  MAX_CALL_RETRIES = 1
  RepliesMayBeLost = FALSE
  InitMayFail = FALSE
  CallbackKinds = {}
  CreatedWith = {"none"}
  Runs = {r1}
  Worker = w
  USE_REALTIME_API = TRUE
  MAX_CONCURRENT_CALLS = 1
  Requests = {q1}
  Kinds = {"execute"}
  MaxRequests = 3
  MaxCrashes = 0
INVARIANTS
  LiveCallsCapped
