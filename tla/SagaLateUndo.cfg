CONSTANTS
  r1 = r1
  r2 = r2
  e1 = e1
  n1 = n1
  c1 = c1
  None = None
  Request = {r1, r2}
  Email = {e1}
  RepoName = {n1}
  Click = {c1}
  MaxAttempts = 1
  MaxStalls = 0
  MaxFaults = 0
SPECIFICATION Spec
SYMMETRY Symmetry
PROPERTY CompletedStaysPending
\* Requests are finite and every answer is final: the system comes to rest.
CHECK_DEADLOCK FALSE
