\* Two subscriptions, two links served at a time, two activations; one crash,
\* thrown error or expired lock, so every command can be retried once.
CONSTANTS
  s1 = s1
  s2 = s2
  c1 = c1
  c2 = c2
  w1 = w1
  w2 = w2
  None = None
  Subscription = {s1, s2}
  Click = {c1, c2}
  Slot = {w1, w2}
  MaxCommands = 3
  MaxFaults = 1
  MaxAttempts = 2
  MaxStalls = 1
SPECIFICATION FairSpec
INVARIANT TypeOK
INVARIANT AloneClickHeals
PROPERTY LastClickSettles
\* Links stop being followed: everything comes to rest.
CHECK_DEADLOCK FALSE
