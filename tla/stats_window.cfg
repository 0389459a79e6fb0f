\* Two requests for different parts of one day.
SPECIFICATION Spec
CONSTANTS
  r1 = r1
  r2 = r2
  Requests = {r1, r2}
  Req <- Windows
  Teams = {1}
  Users = {1, 2}
  TaskIds = {1}
  Day = 3
  MaxRange = 6
  Malformed = Malformed
  Horizon = 1
INVARIANT
  AnswerOfWindow
CHECK_DEADLOCK FALSE
