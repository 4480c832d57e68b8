SPECIFICATION Spec
CONSTANTS
  None = None
  Tasks = {t1}
  MaxAttempts = 3
  MAX_RETRY_ATTEMPTS = 1
  MAX_CALL_RETRIES = 1
  RepliesMayBeLost = FALSE
  InitMayFail = FALSE
  CallbackKinds = {}
  CreatedWith = {"none", "future"}
  Runs = {r1}
  Worker = w
  USE_REALTIME_API = TRUE
  MAX_CONCURRENT_CALLS = 1
  Requests = {q1}
  Kinds = {"execute"}
  MaxRequests = 2
  MaxCrashes = 0
PROPERTIES
  OverruleOnlyUnclaimed
