SPECIFICATION Spec
CONSTANTS
  None = None
  Tasks = {t1, t2}
  MaxAttempts = 1
  MAX_RETRY_ATTEMPTS = 2
  MAX_CALL_RETRIES = 1
  RepliesMayBeLost = FALSE
  InitMayFail = TRUE
  CallbackKinds = {"noanswer"}
  CreatedWith = {"none", "future"}
  Runs = {r1}
  Worker = w
  USE_REALTIME_API = TRUE
  MAX_CONCURRENT_CALLS = 1
  Requests = {q1}
  Kinds = {}
  MaxRequests = 0
  MaxCrashes = 1
INVARIANTS
  RetryBound
  RetryListFresh
