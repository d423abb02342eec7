\* One repository, one subscriber; two changes of the latest release and one
\* crash or thrown error: enough to announce a release twice and to miss
\* one in between.
CONSTANTS
  n1 = n1
  u1 = u1
  t1 = t1
  t2 = t2
  None = None
  Repo = {n1}
  User = {u1}
  Tag = {t1, t2}
  MaxReleases = 2
  MaxFaults = 1
  MaxAttempts = 2
  MaxStalls = 1
SPECIFICATION FairSpec
INVARIANT TypeOK
INVARIANT OwedAreMailed
INVARIANT SeenWasAnnounced
INVARIANT ProjectionFollows
PROPERTY EventLeavesItsTag
PROPERTY ImplementsNotice
PROPERTY OwedGetMailed
PROPERTY ReleaseIsSeen
