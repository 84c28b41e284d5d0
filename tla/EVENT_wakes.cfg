SPECIFICATION Spec
CONSTANTS
  Setters = {s1}
  Waiters = {w1, w2}
  Timeouts = {1}
  Second = 1
  MaxNow = 1
  Spurious = TRUE
INVARIANT WaitSeesSet
