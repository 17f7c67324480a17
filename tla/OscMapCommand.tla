---------------------------- MODULE OscMapCommand ----------------------------
(***************************************************************************)
(* An OscMapCommand (include/oscit/osc_map_command.h,                       *)
(* src/osc_map_command.cpp): its own thread, which receives and maps the    *)
(* messages of devices, and other threads, which change its port, its       *)
(* reply port or its script, all through one mutex that is not recursive.   *)
(*                                                                          *)
(* A message is told by what becomes of it: "mapped" to a method, to one of *)
(* the command's own methods ("itself"), "meta", or "none".                  *)
(***************************************************************************)
EXTENDS Integers

CONSTANTS
  MapClient,       \* the other threads
  MapPort,         \* port numbers
  MaxMessages, MaxCalls   \* bounds of the model

Unlocked == "unlocked"
Own == "own"

ASSUME OscMapAssumption ==
  /\ MaxMessages \in Nat /\ MaxCalls \in Nat /\ MapPort # {}
  /\ MapClient \cap {Unlocked, Own} = {}

VARIABLES
  mapMutex,    \* who holds the mutex of the command
  own,         \* the own thread: where it is, its message, and how many it received
  client,      \* of each other thread: where it is, its argument, its calls so far
  mapPort_,
  broken,      \* the loop of the own thread was told to end
  terminated   \* listen has thrown in its thread

mapVars == <<mapMutex, own, client, mapPort_, broken, terminated>>

MessageKind == {"mapped", "itself", "meta", "none"}

MapInit ==
  /\ mapMutex = Unlocked
  /\ own = [pc |-> "loop", msg |-> "none", count |-> 0]
  /\ mapPort_ \in MapPort
  /\ client = [c \in MapClient |-> [pc |-> "idle", arg |-> mapPort_, count |-> 0]]
  /\ broken = FALSE /\ terminated = FALSE

OwnTo(pc) == own' = [own EXCEPT !.pc = pc]
ClientTo(c, pc) == client' = [client EXCEPT ![c].pc = pc]

Lock(t) == mapMutex = Unlocked /\ mapMutex' = t
Unlock(t) == mapMutex' = IF mapMutex = t THEN Unlocked ELSE mapMutex

-----------------------------------------------------------------------------
(* The own thread *)

MessageComes(kind) ==
  /\ own.pc = "loop" /\ own.count < MaxMessages
  /\ own' = [pc |-> "begin", msg |-> kind, count |-> own.count + 1]
  /\ UNCHANGED <<mapMutex, client, mapPort_, broken, terminated>>

(* The thread has said that it is ready; Run begins with break_ = false. *)
LoopBegins ==
  /\ own.pc = "ready" /\ OwnTo("loop")
  /\ broken' = FALSE
  /\ UNCHANGED <<mapMutex, client, mapPort_, terminated>>

LoopEnds ==
  /\ own.pc = "loop" /\ broken
  /\ OwnTo("gone")
  /\ UNCHANGED <<mapMutex, client, mapPort_, broken, terminated>>

(* ProcessMessage takes the mutex, receive gives it up to load the script   *)
(* again when it is due.                                                    *)
ReceiveBegin ==
  /\ own.pc = "begin" /\ mapMutex = Unlocked
  /\ OwnTo("eval") \/ OwnTo("again")
  /\ UNCHANGED <<mapMutex, client, mapPort_, broken, terminated>>

(* eval_script *)
OwnParse ==
  /\ own.pc = "eval" /\ Lock(Own) /\ OwnTo("parse")
  /\ UNCHANGED <<client, mapPort_, broken, terminated>>

OwnParsed ==
  /\ own.pc = "parse" /\ Unlock(Own) /\ OwnTo("again")
  /\ UNCHANGED <<client, mapPort_, broken, terminated>>

ReceiveAgain ==
  /\ own.pc = "again" /\ Lock(Own) /\ OwnTo("map")
  /\ UNCHANGED <<client, mapPort_, broken, terminated>>

(* What is mapped or meta is called, under the mutex.  A method of the      *)
(* command itself locks once more, and never returns.                       *)
MapMessage ==
  /\ own.pc = "map"
  /\ IF own.msg = "itself" THEN OwnTo("itself") /\ UNCHANGED mapMutex
     ELSE OwnTo("loop") /\ Unlock(Own)
  /\ UNCHANGED <<client, mapPort_, broken, terminated>>

OwnStep ==
  \/ LoopBegins \/ LoopEnds \/ ReceiveBegin
  \/ OwnParse \/ OwnParsed \/ ReceiveAgain \/ MapMessage

-----------------------------------------------------------------------------
(* Other threads *)

MapCall(c, pc, arg) ==
  /\ client[c].pc = "idle" /\ client[c].count < MaxCalls
  /\ client' = [client EXCEPT ![c] = [pc |-> pc, arg |-> arg, count |-> @.count + 1]]
  /\ UNCHANGED <<mapMutex, own, mapPort_, broken, terminated>>

CallPort(c, p) == p # mapPort_ /\ MapCall(c, "port", p)
CallReplyPort(c) == MapCall(c, "reply", client[c].arg)
CallScript(c) == MapCall(c, "eval", client[c].arg)

(* Root::notify_observers calls without the mutex of the command.           *)
CallNotify(c) == MapCall(c, "notify", client[c].arg)

(* The value is mapped back and sent. *)
NotifyMapped(c) ==
  /\ client[c].pc = "notify" /\ ClientTo(c, "idle")
  /\ UNCHANGED <<mapMutex, own, mapPort_, broken, terminated>>

ReplyPort(c) ==
  /\ client[c].pc = "reply" /\ mapMutex = Unlocked
  /\ ClientTo(c, "idle")
  /\ UNCHANGED <<mapMutex, own, mapPort_, broken, terminated>>

(* Mutant: eval_script does not lock. *)
ClientParseUnlocked(c) ==
  /\ client[c].pc = "eval" /\ ClientTo(c, "parse")
  /\ UNCHANGED <<mapMutex, own, mapPort_, broken, terminated>>

ClientParse(c) ==
  /\ client[c].pc = "eval" /\ Lock(c) /\ ClientTo(c, "parse")
  /\ UNCHANGED <<own, mapPort_, broken, terminated>>

ClientParsed(c) ==
  /\ client[c].pc = "parse" /\ Unlock(c) /\ ClientTo(c, "idle")
  /\ UNCHANGED <<own, mapPort_, broken, terminated>>

(* change_port, under the mutex: break the loop, join the thread, *)
KillListener(c) ==
  /\ client[c].pc = "port" /\ Lock(c)
  /\ broken' = TRUE /\ ClientTo(c, "join")
  /\ UNCHANGED <<own, mapPort_, terminated>>

JoinListener(c) ==
  /\ client[c].pc = "join" /\ own.pc = "gone"
  /\ mapPort_' = client[c].arg /\ ClientTo(c, "start")
  /\ UNCHANGED <<mapMutex, own, broken, terminated>>

(* Mutant: the mutex is kept. *)
StartListenerLocked(c) ==
  /\ client[c].pc = "start"
  /\ OwnTo("ready") /\ ClientTo(c, "idle")
  /\ UNCHANGED <<mapMutex, mapPort_, broken, terminated>>

(* and listen at the new port.  A port that cannot be bound throws in the   *)
(* new thread, where nothing catches it.                                    *)
StartListener(c) ==
  /\ client[c].pc = "start"
  /\ \/ /\ OwnTo("ready") /\ ClientTo(c, "idle")
        /\ Unlock(c) /\ UNCHANGED terminated
     \/ terminated' = TRUE /\ UNCHANGED <<mapMutex, own, client>>
  /\ UNCHANGED <<mapPort_, broken>>

ClientStep(c) ==
  \/ NotifyMapped(c) \/ ReplyPort(c) \/ ClientParse(c) \/ ClientParsed(c)
  \/ KillListener(c) \/ JoinListener(c) \/ StartListener(c)

OscMapNext ==
  /\ ~terminated
  /\ \/ OwnStep \/ \E kind \in MessageKind : MessageComes(kind)
     \/ \E c \in MapClient :
          ClientStep(c) \/ CallNotify(c) \/ CallReplyPort(c) \/ CallScript(c) \/ \E p \in MapPort : CallPort(c, p)

OscMapSpec == MapInit /\ [][OscMapNext]_mapVars

-----------------------------------------------------------------------------
(* Properties *)

(* The rules of the mapper are replaced, and read for a message, by one     *)
(* thread at a time, although the receiving thread gives up its lock in     *)
(* between.                                                                 *)
InMapper ==
  {c \in MapClient : client[c].pc = "parse"} \cup (IF own.pc \in {"map", "parse"} THEN {Own} ELSE {})
MapperIsHeldAlone == \A t, u \in InMapper : t = u

(* osc_map_command.h:77 of notify_observers: "Executed within mutex lock    *)
(* from root": the rules are not replaced while a notification reads them.  *)
(* They may be (README).                                                    *)
NotifiesWholeRules ==
  (\E c \in MapClient : client[c].pc = "notify") =>
    own.pc # "parse" /\ \A c \in MapClient : client[c].pc # "parse"

(* The thread that changes the port waits for a thread that waits for its   *)
(* lock, or that has begun its loop after it was told to end, or the own    *)
(* thread has locked itself out.                                            *)
Embrace ==
  \/ own.pc = "itself"
  \/ own.pc \in {"begin", "eval", "again"} /\ \E c \in MapClient : client[c].pc = "join"
  \/ own.pc = "loop" /\ ~broken /\ \E c \in MapClient : client[c].pc = "join"

(* A call of port, reply_port or script returns, and the command listens    *)
(* again, unless a message was being received when the port changed, or was *)
(* mapped to the command itself, or the thread was not in its loop yet when *)
(* it was told to end: those wait for ever.                                 *)
PortReturns ==
  \A c \in MapClient : client[c].pc # "idle" ~>
    terminated \/ Embrace \/ (client[c].pc = "idle" /\ own.pc # "gone")

=============================================================================
