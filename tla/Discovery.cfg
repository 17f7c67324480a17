SPECIFICATION FairSpec
CONSTANTS
  n1 = n1
  n2 = n2
  a1 = a1
  a2 = a2
  b1 = b1
  Names = {n1, n2}
  Interfaces = {i1}
  Addresses <- MCAddresses
  Programs <- SafePrograms
  LockedDelete = TRUE
  MaxAnnounced = 3
  MaxFailures = 0
  MaxProxies = 4
  None = None
INVARIANTS
  ProxiesAreListed
  NothingUsedIsGone
PROPERTIES
  AnnouncedIsFound
\* The user's program ends.
CHECK_DEADLOCK FALSE
