\* One request and one link followed at a time; two crashes, thrown errors,
\* lost replies or expired locks; a result job is retried once and handed out
\* again once.
CONSTANTS
  r1 = r1
  e1 = e1
  n1 = n1
  c1 = c1
  None = None
  Request = {r1}
  Email = {e1}
  RepoName = {n1}
  Click = {c1}
  MaxAttempts = 2
  MaxStalls = 1
  MaxFaults = 2
SPECIFICATION FairSpec
INVARIANT FailureReportHandled
PROPERTY OnlyOverlapReopens
PROPERTY FailureReportSettles
\* Requests are finite and every answer is final: the system comes to rest.
CHECK_DEADLOCK FALSE
