SPECIFICATION DevicesSpec
CONSTANTS
  Part = {"sockets", "udp", "thread", "semaphore", "script", "hash", "map", "registration"}
  Socket = {"s", "t"}
  TimerCall <- Timers_
  Peer = {"p", "q"}
  SocketTime = 1
  MaxEvents = 2
  Caller = {"all", "most", "one"}
  Wanted <- Demands
  Resources = 3
  MaxStarts = 3
  MaxUses = 2
  Path = {"f"}
  ScriptText = {"good", "bad"}
  Compiles = {"", "good"}
  FileKey = {"j", "k"}
  FileVal = {"x", "y"}
  LastSecond = 2
  MapClient = {"c", "d"}
  MapPort = {1, 2}
  MaxMessages = 2
  MaxCalls = 1
  OnHost = {1, 3}
  OnNetwork = {2, 4}
  MaxServerEvents = 2
  MaxFailures = 1
INVARIANTS SocketsKeepTheirWord ThreadsAreSound MapperIsHeldAlone NameIsOurs
PROPERTIES DevicesServe FilesAreKept
CHECK_DEADLOCK FALSE
