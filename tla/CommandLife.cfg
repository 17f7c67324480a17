SPECIFICATION FairSpec
CONSTANTS
  u1 = u1
  u2 = u2
  c1 = c1
  c2 = c2
  c3 = c3
  None = None
  User<-MCUser
  Cmd<-MCCmd
  Protocol<-MCProtocol
  Ops<-MCOwnerAndEditor
  Kinds = {"meta","call"}
  Patient = TRUE
  MaxCalls = 4
  MaxMessages = 2
INVARIANTS UsedIsAlive CommandsAreSound
CHECK_DEADLOCK FALSE
PROPERTIES CallsReturn
