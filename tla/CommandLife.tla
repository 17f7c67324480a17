----------------------------- MODULE CommandLife -----------------------------
(***************************************************************************)
(* A Root and its commands (include/oscit/root.h, src/root.cpp), of which   *)
(* each listens in a thread of its own (src/osc_command.cpp, with the       *)
(* receive loop of oscpack/ip/posix/UdpSocket.cpp).  Users adopt commands,  *)
(* send through them, notify the observers of all of them and clear the     *)
(* Root; a command's thread answers what it receives, to the caller or to   *)
(* the observers of all commands.                                           *)
(*                                                                          *)
(* Users and command threads are actors: an actor is in at most one call.   *)
(* Taking the lock of commands_, using the list and giving the lock back    *)
(* with nothing that waits in between is one step.                          *)
(***************************************************************************)
EXTENDS Integers, FiniteSets, SequencesExt

CONSTANTS
  User, Cmd, None,
  Ops,          \* of each user: the methods it calls
  Protocol,     \* of each command
  Kinds,        \* of messages: "meta" is answered to the caller, "call" to all
  Patient,      \* clear is called only when every thread listens
  MaxCalls, MaxMessages   \* bounds of the model

AllOps == {"adopt_command", "clear", "notify_observers", "send"}

ASSUME LifeAssumption ==
  /\ Ops \in [User -> SUBSET AllOps]
  /\ DOMAIN Protocol = Cmd
  /\ Kinds \subseteq {"meta", "call"} /\ Patient \in BOOLEAN
  /\ MaxCalls \in Nat /\ MaxMessages \in Nat
  /\ User \cap Cmd = {} /\ None \notin User \cup Cmd

Actor == User \cup Cmd

VARIABLES
  commands_,
  cmd,        \* of each command: "new", "owned" by the Root or a call, "deleted"
  tpc,        \* of each command's thread: "none", "init", "ready", "run", "ended"
  running_,   \* OscCommand::Implementation's
  break_,     \* of the receive loop
  act,        \* the call each actor is in
  calls, messages   \* events so far

vars == <<commands_, cmd, tpc, running_, break_, act, calls, messages>>
threadVars == <<tpc, running_, break_>>

Idle == [op |-> "none", pc |-> "idle", c |-> None, i |-> 0]

At(x, op, pc) == act[x].op = op /\ act[x].pc = pc
Goto(x, pc) == act' = [act EXCEPT ![x].pc = pc]
Return(x) == act' = [act EXCEPT ![x] = Idle]

Init ==
  /\ commands_ = <<>>
  /\ cmd = [c \in Cmd |-> "new"]
  /\ tpc = [c \in Cmd |-> "none"]
  /\ running_ = [c \in Cmd |-> FALSE] /\ break_ = [c \in Cmd |-> FALSE]
  /\ act = [x \in Actor |-> Idle]
  /\ calls = 0 /\ messages = 0

-----------------------------------------------------------------------------
(* The lock of commands_ *)

Reading(x) == act[x].op = "notify_observers" /\ act[x].pc # "enter"
Writing(x) == act[x].op = "clear" /\ act[x].pc # "enter"

(* Mutant: notify_observers does not lock. *)
CanReadAlways == TRUE

CanRead == \A x \in Actor : ~Writing(x)

(* Mutant: a writer does not wait for the readers. *)
CanWriteUnread == \A x \in Actor : ~Writing(x)

CanWrite == \A x \in Actor : ~Writing(x) /\ ~Reading(x)

-----------------------------------------------------------------------------
(* A user's call begins. *)

Listening == \A c \in Cmd : tpc[c] \in {"none", "run", "ended"}

Begin(u, op, c) ==
  /\ act[u] = Idle /\ calls < MaxCalls /\ op \in Ops[u]
  /\ CASE op = "adopt_command" -> c \in Cmd /\ cmd[c] = "new"
       [] op = "clear" -> c = None /\ (Patient => Listening)
       [] op = "notify_observers" -> c = None
       [] op = "send" -> c = None
  /\ calls' = calls + 1
  /\ act' = [act EXCEPT ![u] = [op |-> op, pc |-> "enter", c |-> c, i |-> 1]]
  /\ cmd' = IF op = "adopt_command" THEN [cmd EXCEPT ![c] = "owned"] ELSE cmd
  /\ UNCHANGED <<commands_, threadVars, messages>>

-----------------------------------------------------------------------------
(* adopt_command *)

Handles(c, p) == Protocol[c] = p

(* Mutant: a second command of a protocol is not refused. *)
AdoptCheckNot(u) ==
  /\ At(u, "adopt_command", "enter") /\ CanRead
  /\ Goto(u, "push") /\ UNCHANGED cmd
  /\ UNCHANGED <<commands_, threadVars, calls, messages>>

(* command_for_protocol: delete the command if there is one already. *)
AdoptCheck(u) ==
  LET c == act[u].c IN
  /\ At(u, "adopt_command", "enter") /\ CanRead
  /\ IF \E d \in ToSet(commands_) : Handles(d, Protocol[c])
     THEN cmd' = [cmd EXCEPT ![c] = "deleted"] /\ Return(u)
     ELSE Goto(u, "push") /\ UNCHANGED cmd
  /\ UNCHANGED <<commands_, threadVars, calls, messages>>

AdoptPush(u) ==
  /\ At(u, "adopt_command", "push") /\ CanWrite
  /\ commands_' = Append(commands_, act[u].c)
  /\ Goto(u, "start")
  /\ UNCHANGED <<cmd, threadVars, calls, messages>>

(* start_command: create the thread ... *)
AdoptStart(u) ==
  /\ At(u, "adopt_command", "start")
  /\ tpc' = [tpc EXCEPT ![act[u].c] = "init"]
  /\ Goto(u, "wait")
  /\ UNCHANGED <<commands_, cmd, running_, break_, calls, messages>>

(* ... and wait for thread_ready(). *)
AdoptReady(u) ==
  /\ At(u, "adopt_command", "wait")
  /\ tpc[act[u].c] # "init"
  /\ Return(u)
  /\ UNCHANGED <<commands_, cmd, threadVars, calls, messages>>

-----------------------------------------------------------------------------
(* Root::clear *)

ClearEnter(u) ==
  /\ At(u, "clear", "enter") /\ CanWrite
  /\ Goto(u, "kill")
  /\ UNCHANGED <<commands_, cmd, threadVars, calls, messages>>

(* Mutant: the receive loop is not told to end. *)
ClearKillQuiet(u) ==
  /\ At(u, "clear", "kill") /\ commands_ # <<>>
  /\ running_' = [running_ EXCEPT ![Head(commands_)] = FALSE]
  /\ Goto(u, "join")
  /\ UNCHANGED <<commands_, cmd, tpc, break_, calls, messages>>

(* OscCommand::kill: AsynchronousBreak if running_ ... *)
ClearKill(u) ==
  LET c == Head(commands_) IN
  /\ At(u, "clear", "kill") /\ commands_ # <<>>
  /\ break_' = [break_ EXCEPT ![c] = @ \/ running_[c]]
  /\ running_' = [running_ EXCEPT ![c] = FALSE]
  /\ Goto(u, "join")
  /\ UNCHANGED <<commands_, cmd, tpc, calls, messages>>

(* Mutant: the command is deleted without waiting for its thread. *)
ClearJoinNot(u) ==
  /\ At(u, "clear", "join")
  /\ cmd' = [cmd EXCEPT ![Head(commands_)] = "deleted"]
  /\ commands_' = Tail(commands_)
  /\ Goto(u, "kill")
  /\ UNCHANGED <<threadVars, calls, messages>>

(* ... join, delete, pop_front. *)
ClearJoin(u) ==
  LET c == Head(commands_) IN
  /\ At(u, "clear", "join")
  /\ tpc[c] \in {"none", "ended"}
  /\ cmd' = [cmd EXCEPT ![c] = "deleted"]
  /\ commands_' = Tail(commands_)
  /\ Goto(u, "kill")
  /\ UNCHANGED <<threadVars, calls, messages>>

ClearLeave(u) ==
  /\ At(u, "clear", "kill") /\ commands_ = <<>>
  /\ Return(u)
  /\ UNCHANGED <<commands_, cmd, threadVars, calls, messages>>

-----------------------------------------------------------------------------
(* notify_observers and send: "use" is the time in send_to_all or in        *)
(* send_message, where a message is built in the command's osc_buffer_.     *)

NotifyEnter(x) ==
  /\ At(x, "notify_observers", "enter") /\ CanRead
  /\ Goto(x, "loop")
  /\ UNCHANGED <<commands_, cmd, threadVars, calls, messages>>

NotifyUse(x) ==
  /\ At(x, "notify_observers", "loop") /\ act[x].i <= Len(commands_)
  /\ act' = [act EXCEPT ![x].pc = "use", ![x].c = commands_[act[x].i]]
  /\ UNCHANGED <<commands_, cmd, threadVars, calls, messages>>

NotifyUsed(x) ==
  /\ At(x, "notify_observers", "use")
  /\ act' = [act EXCEPT ![x].pc = "loop", ![x].c = None, ![x].i = @ + 1]
  /\ UNCHANGED <<commands_, cmd, threadVars, calls, messages>>

NotifyLeave(x) ==
  /\ At(x, "notify_observers", "loop") /\ act[x].i > Len(commands_)
  /\ Return(x)
  /\ UNCHANGED <<commands_, cmd, threadVars, calls, messages>>

(* command_for_protocol of the protocol of d: the first in the list. *)
First(i, p) ==
  /\ Handles(commands_[i], p)
  /\ \A j \in 1..(i - 1) : ~Handles(commands_[j], p)

SendFind(u, d) ==
  /\ At(u, "send", "enter") /\ CanRead
  /\ \/ /\ \A i \in DOMAIN commands_ : ~Handles(commands_[i], Protocol[d])
        /\ Return(u)
     \/ \E i \in DOMAIN commands_ :
          /\ First(i, Protocol[d])
          /\ act' = [act EXCEPT ![u].pc = "found", ![u].c = commands_[i]]
  /\ UNCHANGED <<commands_, cmd, threadVars, calls, messages>>

SendUse(u) ==
  /\ At(u, "send", "found")
  /\ Goto(u, "use")
  /\ UNCHANGED <<commands_, cmd, threadVars, calls, messages>>

SendUsed(x) ==
  /\ At(x, "send", "use")
  /\ Return(x)
  /\ UNCHANGED <<commands_, cmd, threadVars, calls, messages>>

-----------------------------------------------------------------------------
(* The thread of a command *)

(* listen(): open the socket, running_, publish, thread_ready() ... *)
ThreadReady(c) ==
  /\ tpc[c] = "init"
  /\ tpc' = [tpc EXCEPT ![c] = "ready"]
  /\ running_' = [running_ EXCEPT ![c] = TRUE]
  /\ UNCHANGED <<commands_, cmd, break_, act, calls, messages>>

(* ... and Run(), which begins with break_ = false. *)
ThreadRun(c) ==
  /\ tpc[c] = "ready"
  /\ tpc' = [tpc EXCEPT ![c] = "run"]
  /\ break_' = [break_ EXCEPT ![c] = FALSE]
  /\ UNCHANGED <<commands_, cmd, running_, act, calls, messages>>

(* receive(): the answer goes to the caller or to all observers. *)
ThreadReceive(c, kind) ==
  /\ tpc[c] = "run" /\ act[c] = Idle /\ ~break_[c]
  /\ messages < MaxMessages /\ messages' = messages + 1
  /\ act' = [act EXCEPT ![c] =
       IF kind = "meta" THEN [op |-> "send", pc |-> "use", c |-> c, i |-> 1]
       ELSE [op |-> "notify_observers", pc |-> "enter", c |-> None, i |-> 1]]
  /\ UNCHANGED <<commands_, cmd, threadVars, calls>>

ThreadEnd(c) ==
  /\ tpc[c] = "run" /\ act[c] = Idle /\ break_[c]
  /\ tpc' = [tpc EXCEPT ![c] = "ended"]
  /\ UNCHANGED <<commands_, cmd, running_, break_, act, calls, messages>>

-----------------------------------------------------------------------------

UserStep(u) ==
  \/ AdoptCheck(u) \/ AdoptPush(u) \/ AdoptStart(u) \/ AdoptReady(u)
  \/ ClearEnter(u) \/ ClearKill(u) \/ ClearJoin(u) \/ ClearLeave(u)
  \/ \E d \in Cmd : SendFind(u, d)
  \/ SendUse(u)

NotifyStep(x) ==
  \/ NotifyEnter(x) \/ NotifyUse(x) \/ NotifyUsed(x) \/ NotifyLeave(x)
  \/ SendUsed(x)

ThreadStep(c) == ThreadReady(c) \/ ThreadRun(c) \/ ThreadEnd(c)

Next ==
  \/ \E u \in User, op \in AllOps, c \in Cmd \cup {None} : Begin(u, op, c)
  \/ \E u \in User : UserStep(u)
  \/ \E x \in Actor : NotifyStep(x)
  \/ \E c \in Cmd : ThreadStep(c)
  \/ \E c \in Cmd, kind \in Kinds : ThreadReceive(c, kind)

Spec == Init /\ [][Next]_vars

(* A thread that can go on does; nobody has to call or to send a message.   *)
FairSpec ==
  /\ Spec
  /\ \A u \in User : WF_vars(UserStep(u))
  /\ \A x \in Actor : WF_vars(NotifyStep(x))
  /\ \A c \in Cmd : WF_vars(ThreadStep(c))

-----------------------------------------------------------------------------
(* Properties *)

TypeOK ==
  /\ commands_ \in Seq(Cmd)
  /\ cmd \in [Cmd -> {"new", "owned", "deleted"}]
  /\ tpc \in [Cmd -> {"none", "init", "ready", "run", "ended"}]
  /\ running_ \in [Cmd -> BOOLEAN] /\ break_ \in [Cmd -> BOOLEAN]
  /\ \A x \in Actor :
       /\ act[x].op \in AllOps \cup {"none"}
       /\ act[x].c \in Cmd \cup {None}
       /\ act[x].i \in Nat
       /\ Reading(x) => act[x].i <= Len(commands_) + 1
  /\ calls \in 0..MaxCalls /\ messages \in 0..MaxMessages

(* Nothing is done with a command that is deleted: what a notification goes *)
(* through, what a send has found and what adopt_command starts is there    *)
(* until it is done with.                                                   *)
UsedIsAlive ==
  \A x \in Actor : act[x].c # None => cmd[act[x].c] # "deleted"

(* A command is deleted only when its thread has ended, and is out of       *)
(* commands_ then (Root::clear: kill, delete, pop_front).                   *)
ThreadEndsFirst ==
  \A c \in Cmd : cmd[c] = "deleted" =>
    tpc[c] \in {"none", "ended"} /\ c \notin ToSet(commands_)

(* "only one allowed per protocol": commands_ never holds two commands of a *)
(* protocol (adopt_command).                                                *)
OnePerProtocol ==
  \A i, j \in DOMAIN commands_ :
    Protocol[commands_[i]] = Protocol[commands_[j]] => i = j

(* "impl_->kill() will stop thread": a thread that is being joined is on    *)
(* its way out, it does not wait for messages.                              *)
KillIsHeard ==
  \A u \in User : At(u, "clear", "join") =>
    LET c == Head(commands_) IN tpc[c] = "run" => break_[c]

(* Adopting, killing and deleting commands keeps commands_, their threads   *)
(* and their sockets in step.                                               *)
CommandsAreSound == TypeOK /\ ThreadEndsFirst /\ OnePerProtocol /\ KillIsHeard

(* Root::clear waits, under the lock for writers, for a thread that waits   *)
(* for that lock: a deadlock of the code (README).                          *)
Embraced ==
  \E u \in User : At(u, "clear", "join")
    /\ At(Head(commands_), "notify_observers", "enter")

(* Root::clear does not wait for a thread that waits for the lock clear     *)
(* holds.                                                                   *)
JoinedIsFree == ~Embraced

(* A command's osc_buffer_ is used by one thread at a time.                 *)
BufferIsExclusive ==
  \A x, y \in Actor :
    act[x].pc = "use" /\ act[y].pc = "use" /\ act[x].c = act[y].c => x = y

(* What a send has found has its socket: send_message asserts it.           *)
SendHasSocket ==
  \A x \in Actor : At(x, "send", "use") => tpc[act[x].c] \notin {"none", "init"}

(* Every call of a user returns, Root::clear too, which waits for the       *)
(* threads of all commands: nothing but that of Embraced, in which          *)
(* every later caller of the Root is caught as well, can hold it.           *)
CallsReturn == \A u \in User : act[u] # Idle ~> (act[u] = Idle \/ Embraced)

=============================================================================
