\* Two requests for the same subscription, one link followed at a time, one
\* crash, thrown error, lost reply or expired lock; a result job that throws
\* or stalls is given up.
CONSTANTS
  r1 = r1
  r2 = r2
  e1 = e1
  n1 = n1
  c1 = c1
  None = None
  Request = {r1, r2}
  Email = {e1}
  RepoName = {n1}
  Click = {c1}
  MaxAttempts = 1
  MaxStalls = 0
  MaxFaults = 1
SPECIFICATION Spec
SYMMETRY Symmetry
INVARIANT TypeOK
INVARIANT CompensatedUndone
INVARIANT CompletedWasMailed
INVARIANT OrphanWasShared
PROPERTY ActiveEndsOnPurpose
PROPERTY FirstRequestKeepsItsRow
PROPERTY ImplementsPromise
\* Requests are finite and every answer is final: the system comes to rest.
CHECK_DEADLOCK FALSE
