CONSTANTS
  s1 = s1
  c1 = c1
  w1 = w1
  w2 = w2
  None = None
  Subscription = {s1}
  Click = {c1}
  Slot = {w1, w2}
  MaxCommands = 3
  MaxFaults = 0
  MaxAttempts = 1
  MaxStalls = 0
SPECIFICATION Spec
INVARIANT ActiveIsScanned
\* Links stop being followed: everything comes to rest.
CHECK_DEADLOCK FALSE
