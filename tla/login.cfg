\* Two requests at a time, for a login and an address with keys of their own and
\* others that share theirs.
SPECIFICATION Spec
CONSTANTS
  ip1 = ip1
  ann = ann
  bob = bob
  u1 = u1
  Ips <- MCIps
  Requests <- MCRequests
  Users = {u1}
  Logins = {ann, bob}
  Workers = {w1, w2}
  LoginPerMin = 1
  RefreshPerMin = 1
  MaxAttempts = 2
  Tries = 2
  MaxRequests = 3
  Faults = {"redis", "crash"}
  None = None
INVARIANTS
  TypeOK
  LimitPerWindow
  FewLateChecks
  LockedForReason
  TTLDue
