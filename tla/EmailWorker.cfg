\* A confirmation and a new-release mail, three attempts each, two slots:
\* enough for an attempt whose lock expired to overlap the next one, with one
\* crash and one graceful stop besides.
CONSTANTS
  s1 = s1
  m1 = m1
  w1 = w1
  w2 = w2
  Nobody = Nobody
  Saga = {s1}
  Release = {m1}
  Slot = {w1, w2}
  MaxAttempts = 3
  MaxStalls = 1
  MaxCrashes = 1
  MaxLockLosses = 1
  MaxStops = 1
SPECIFICATION FairSpec
INVARIANT TypeOK
INVARIANT FailureReportedLast
INVARIANT ReleaseMailedOnce
INVARIANT CompletedReleaseWasMailed
INVARIANT StopIsHarmless
PROPERTY ImplementsDelivery
PROPERTY NoResendAfterCheckpoint
PROPERTY NoFailureAfterSent
PROPERTY JobSettles
\* Every job ends, and then there is nothing left to do.
CHECK_DEADLOCK FALSE
