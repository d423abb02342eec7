\* One request whose links are not followed; one activation of the mail worker
\* at a time; two attempts and one redelivery of every job; two crashes, thrown
\* errors, lost replies or expired locks of the Main API, one crash and one
\* expired lock of the Notification Service.
CONSTANTS
  r1 = r1
  e1 = e1
  n1 = n1
  w1 = w1
  None = None
  Request = {r1}
  Email = {e1}
  RepoName = {n1}
  Click = {}
  Slot = {w1}
  MaxAttempts = 2
  MaxStalls = 1
  MaxFaults = 2
  MaxCrashes = 1
  MaxLockLosses = 1
  MaxStops = 0
SPECIFICATION FlowSpec
INVARIANT FlowTypeOK
INVARIANT StuckOnlyInItsWindows
INVARIANT CompensatedOnLastAttempt
\* Requests are finite and every answer is final: the system comes to rest.
CHECK_DEADLOCK FALSE
