SPECIFICATION FairSpec
CONSTANTS
  Sig = {s1, s2}
  Obs = {p1, p2}
  None = None
  Thread = {t1, t2}
  MaxCalls = 5
  Alone = {"disconnect", "send_once", "~Signal"}
INVARIANTS ConnectionsAreSound
PROPERTIES CallsReturn
\* The calls are bounded: the system stops.
CHECK_DEADLOCK FALSE
