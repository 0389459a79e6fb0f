\* Two lists around one write, with Redis working.
SPECIFICATION Spec
CONSTANTS
  Readers = {c1, c2}
  Writers = {w1}
  Tries = 1
  Faults = {}
  None = None
INVARIANT
  SeesAnsweredWrites
