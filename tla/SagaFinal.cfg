CONSTANTS
  r1 = r1
  e1 = e1
  n1 = n1
  None = None
  Request = {r1}
  Email = {e1}
  RepoName = {n1}
  Click = {}
  MaxAttempts = 1
  MaxStalls = 0
  MaxFaults = 0
SPECIFICATION Spec
SYMMETRY Symmetry
PROPERTY CompensatedIsFinal
\* Requests are finite and every answer is final: the system comes to rest.
CHECK_DEADLOCK FALSE
