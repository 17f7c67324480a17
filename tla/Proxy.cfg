SPECIFICATION FairSpec
CONSTANTS
  MaxSets = 3
  MaxForeign = 1
  MaxFaults = 1
  MaxResets = 1
  MaxTime = 4
  Serialised = TRUE
  Empty = Empty
  Nil = Nil
  Attrs = Attrs
  Register = Register
INVARIANTS
  ProxyInv
PROPERTIES
  Throttled
  PendingIsFlushed
  MirrorConverges
\* The user and the other clients may stop setting values.
CHECK_DEADLOCK FALSE
