------------------------------ MODULE MCDevices -----------------------------
(***************************************************************************)
(* What the library does to the operating system, one part beside the      *)
(* other: a part is chosen at the start and the others rest.  The machines *)
(* share no state.                                                         *)
(***************************************************************************)
EXTENDS Sockets, Threads, Files, OscMapCommand, Registration

CONSTANT Part

VARIABLE part     \* the part that is used

(* Two timers that are due together now and then. *)
Timers_ == {[name |-> "x", delay |-> 0, period |-> 2], [name |-> "y", delay |-> 1, period |-> 1]}

(* One caller takes all resources, one most of them, one a single one. *)
Demands == [c \in Caller |-> CASE c = "all" -> 3 [] c = "most" -> 2 [] OTHER -> 1]

-----------------------------------------------------------------------------

DevicesInit ==
  /\ part \in Part
  /\ SocketsInit /\ (part = "sockets" \/ ~win32)
  /\ ThreadsInit
  /\ FilesInit /\ (part = "hash" \/ hashFile = Junk)
  /\ MapInit /\ (part = "map" \/ mapPort_ = CHOOSE p \in MapPort : TRUE)
  /\ RegistrationInit /\ (part = "registration" \/ server = "connecting")

RestBut(p) ==
  /\ part = p /\ UNCHANGED part
  /\ p \notin {"sockets", "udp"} => UNCHANGED socketVars
  /\ p # "thread" => UNCHANGED threadVars
  /\ p # "semaphore" => UNCHANGED semaphoreVars
  /\ p # "script" => UNCHANGED scriptVars
  /\ p # "hash" => UNCHANGED hashVars
  /\ p # "map" => UNCHANGED mapVars
  /\ p # "registration" => UNCHANGED regVars

DevicesNext ==
  \/ RestBut("sockets") /\ MuxNext
  \/ RestBut("udp") /\ UdpStep
  \/ RestBut("thread") /\ ThreadNext
  \/ RestBut("semaphore") /\ SemaphoreNext
  \/ RestBut("script") /\ ScriptNext
  \/ RestBut("hash") /\ HashNext
  \/ RestBut("map") /\ OscMapNext
  \/ RestBut("registration") /\ RegistrationNext

DevicesVars ==
  <<part, socketVars, threadVars, semaphoreVars, scriptVars, hashVars, mapVars, regVars>>

(* The fairness of each module, in the steps of its part. *)
DevicesFair ==
  /\ WF_DevicesVars(RestBut("sockets") /\ LoopStep)
  /\ WF_DevicesVars(RestBut("sockets") /\ BreakWrite)
  /\ WF_DevicesVars(RestBut("sockets") /\ Pass)
  /\ WF_DevicesVars(RestBut("thread") /\ ThreadStep_)
  /\ \A c \in Caller : WF_DevicesVars(RestBut("semaphore") /\ SemaphoreStep(c))
  /\ WF_DevicesVars(RestBut("map") /\ ~terminated /\ OwnStep)
  /\ \A c \in MapClient : WF_DevicesVars(RestBut("map") /\ ~terminated /\ ClientStep(c))
  /\ WF_DevicesVars(RestBut("registration") /\ GroupResolves)
  /\ WF_DevicesVars(RestBut("registration") /\ Callback)

DevicesSpec == DevicesInit /\ [][DevicesNext]_DevicesVars /\ DevicesFair

(* What must happen at last does, whichever part is used: the loop ends     *)
(* when it is told to and receives what comes, who asks for resources gets  *)
(* them, a call of port or script returns to a command that listens, a      *)
(* service is published under some name.                                    *)
DevicesServe == LoopServes /\ AcquireReturns /\ PortReturns /\ RegisteredAtLast

=============================================================================
