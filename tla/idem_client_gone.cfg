\* A retry by a client that may leave.
SPECIFICATION Spec
CONSTANTS
  r1 = r1
  r2 = r2
  r3 = r3
  Requests = {r1, r2}
  Req <- RetryAndPlain
  Statuses = {201, 500}
  Faults = {"client"}
  NoKey = NoKey
  NoResponse = NoResponse
  Nobody = Nobody
INVARIANT
  RetryNotReexecuted
