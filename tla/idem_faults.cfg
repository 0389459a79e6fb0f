\* Every fault, on two retries and a reuse of their key.
SPECIFICATION Spec
CONSTANTS
  r1 = r1
  r2 = r2
  r3 = r3
  Requests = {r1, r2, r3}
  Req <- RetryAndReuse
  Statuses = {201, 500}
  Faults = {"redis", "client", "lock_ttl", "resp_ttl", "crash"}
  NoKey = NoKey
  NoResponse = NoResponse
  Nobody = Nobody
INVARIANTS
  TypeOK
  LockHeldUntilExpiry
  ReplayFaithful
  RetryProtected
PROPERTY
  LockEventuallyFree
