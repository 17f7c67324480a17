SPECIFICATION FairSpec
CONSTANTS
  Server = {"server"}
  Node = {"server", "watcher", "client"}
  Elsewhere = {"port"}
  Remote <- Mirrors
  HasMeta = {"server", "watcher", "client"}
  Path <- Paths
  Signature <- Signatures
  Builds <- NoMeta
  Calls <- SomeCalls
  Val = {0, 1}
  Zero = 0
  MaxEvents = 3
INVARIANTS MirrorIsSound MirrorIsComplete CallersAreAnswered
PROPERTY MessagesEnd
CHECK_DEADLOCK FALSE
