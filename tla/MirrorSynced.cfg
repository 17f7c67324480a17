SPECIFICATION FairSpec
CONSTANTS
  Server = {"server"}
  Node = {"server", "watcher", "client"}
  Elsewhere = {"port"}
  Remote <- Mirrors
  HasMeta = {"server", "watcher", "client"}
  Path <- Paths
  Signature <- Signatures
  Builds <- NoMeta
  Calls <- SomeCalls
  Val = {0, 1}
  Zero = 0
  MaxEvents = 2
INVARIANT ConnectedIsSynced
CHECK_DEADLOCK FALSE
