\* Two verifications (one over each transport can be compared) and one
\* command beside the start and the stop of the service.
CONSTANTS
  c1 = c1
  c2 = c2
  j1 = j1
  Call = {c1, c2}
  Job = {j1}
SPECIFICATION ServiceFairSpec
INVARIANT ServiceTypeOK
INVARIANT AdaptersAgree
INVARIANT RefusedForItsReason
INVARIANT GracefulExit
PROPERTY EveryCallAnswered
PROPERTY AcceptedIsAnswered
PROPERTY StopEnds
\* No call is made twice, and a process that has exited does nothing.
CHECK_DEADLOCK FALSE
