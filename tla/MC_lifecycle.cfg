SPECIFICATION Spec
CONSTANTS
  None = None
  Tasks = {t1}
  MaxAttempts = 2
  MAX_RETRY_ATTEMPTS = 1
  MAX_CALL_RETRIES = 2
  RepliesMayBeLost = TRUE
  InitMayFail = TRUE
  CallbackKinds = {"noanswer", "machine"}
  CreatedWith = {"none"}
  Runs = {r1}
  Worker = w
  USE_REALTIME_API = TRUE
  MAX_CONCURRENT_CALLS = 1
  Requests = {q1}
  Kinds = {"cancel", "retry", "execute"}
  MaxRequests = 1
  MaxCrashes = 1
INVARIANTS
  TypeOK
PROPERTIES
  ImplementsLedger
