\* Two callers on one task and one comment; users are interchangeable.
SPECIFICATION Spec
CONSTANTS
  Teams = {m1}
  Users = {u1, u2}
  TaskIds = {t1}
  CommentIds = {k1}
  Callers = {c1, c2}
  Titles = {"a", "b"}
  MaxEdits = 2
  None = None
SYMMETRY Symmetry
INVARIANTS
  TypeOK
  AuditChain
  AuditAuthority
  AssigneeIsMember
  NoOrphanComment
  CommentAuthority
