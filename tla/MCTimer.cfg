SPECIFICATION TimerSpec
CONSTANTS
  c1 = c1
  c2 = c2
  l1 = l1
  l2 = l2
  l3 = l3
  Client <- MCClient
  Loop <- MCLoop
  NoThread = NoThread
SYMMETRY MCSymmetry
INVARIANTS
  OneLoop
  QuietAfterStop
  RunningIsAccurate
\* stop() can wait for ever for its loop (JoinedLoopCanFinish), and the identities in
\* Loop run out: the system may really stop.
CHECK_DEADLOCK FALSE
