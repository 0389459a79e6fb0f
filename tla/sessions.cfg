\* One login and three refreshes that may race, or two of each.
SPECIFICATION Spec
CONSTANTS
  Users = {u1}
  Tokens = {t1, t2, t3, t4}
  Calls = {c1, c2, c3, c4}
  Second = 4
  RefreshTTL = 3
  ClockSkew = 2
  MaxTime = 4
  None = None
SYMMETRY Symmetry
INVARIANTS
  TypeOK
  OneWinner
  OneLivePerLogin
  RotatedWithinToken
  NoLockLeftBehind
PROPERTIES
  RefinesRotation
