\* Two invitations to a team of three; they may race for one user.
SPECIFICATION Spec
CONSTANTS
  TeamIds = {m1}
  Users = {u1, u2, u3}
  Invites = {i1, i2}
  Faults = {"redis", "lock_ttl"}
  None = None
  Nobody = Nobody
SYMMETRY Symmetry
INVARIANTS
  TypeOK
  GrantedByRight
  OneSucceeds
  MailedOnce
PROPERTY
  RoleNeverChanges
