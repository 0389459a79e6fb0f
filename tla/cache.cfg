\* Two lists and two writes, with every fault.
SPECIFICATION Spec
CONSTANTS
  Readers = {c1, c2}
  Writers = {w1, w2}
  Tries = 2
  Faults = {"redis", "commit", "crash"}
  None = None
INVARIANTS
  TypeOK
  FreshUnlessSpoiled
PROPERTY
  StaleEventuallyGone
