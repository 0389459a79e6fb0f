\* Two concurrent requests with one key.
SPECIFICATION Spec
CONSTANTS
  r1 = r1
  r2 = r2
  r3 = r3
  Requests = {r1, r2}
  Req <- RetryAndPlain
  Statuses = {201}
  Faults = {}
  NoKey = NoKey
  NoResponse = NoResponse
  Nobody = Nobody
INVARIANT
  AtMostOnce
