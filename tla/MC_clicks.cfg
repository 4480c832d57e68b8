SPECIFICATION Spec
CONSTANTS
  None = None
  Tasks = {t1}
  MaxAttempts = 4
  MAX_RETRY_ATTEMPTS = 1
  MAX_CALL_RETRIES = 1
  RepliesMayBeLost = FALSE
  InitMayFail = FALSE
  CallbackKinds = {}
  CreatedWith = {"none"}
  Runs = {r1, r2}
  Worker = w
  USE_REALTIME_API = TRUE
  MAX_CONCURRENT_CALLS = 2
  Requests = {q1}
  Kinds = {"execute", "cancel"}
  MaxRequests = 3
  MaxCrashes = 1
SYMMETRY Symmetry
INVARIANTS
  ClaimExclusive
