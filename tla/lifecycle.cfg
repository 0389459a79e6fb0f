\* Two updates of a task and a comment on it, or a query, share two connections.
SPECIFICATION Spec
CONSTANTS
  u1 = u1
  u2 = u2
  f = f
  Requests = {u1, u2, f}
  Kind <- KindOf
  Row <- RowOf
  MaxOpen = 2
  NoOne = NoOne
INVARIANTS
  TypeOK
  ServedToTheEnd
  ExitTellsFailure
  StuckOnlyOnSecond
PROPERTIES
  EndsInTheEnd
  StuckEnds
