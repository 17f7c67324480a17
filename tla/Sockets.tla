------------------------------- MODULE Sockets ------------------------------
(***************************************************************************)
(* The sockets of oscpack (oscpack/ip/posix/UdpSocket.cpp and the win32     *)
(* file of that name): the loop of a SocketReceiveMultiplexer, which calls  *)
(* the listeners of its sockets and timers until it is told to end, and the *)
(* bookkeeping of one UdpSocket.                                            *)
(*                                                                          *)
(* The loop's thread takes one step for each wait and for each listener it  *)
(* calls; datagrams arrive, time passes and another thread breaks the loop  *)
(* in between.  A datagram is only told from the empty one.                 *)
(***************************************************************************)
EXTENDS Integers, SequencesExt

CONSTANTS
  Socket,       \* the sockets that can be attached
  TimerCall,    \* the timers: records of a name, an initial delay and a period
  Peer,         \* addresses a socket can be connected to
  SocketTime, MaxEvents   \* bounds of the model: the clock; datagrams and breaks

ASSUME SocketsAssumption ==
  /\ \A t \in TimerCall : t.delay \in Nat /\ t.period \in Nat \ {0}
  /\ SocketTime \in Nat /\ MaxEvents \in Nat

VARIABLES
  win32,      \* the win32 file is built, not the posix one
  socketListeners_, timerListeners_,
  break_, breakPipe_,   \* the bytes in the pipe, 1 if win32's event is set
  mux,        \* where the loop is, what is ready, the timer queue
  inbox,      \* datagrams at each socket: the sizes, 0 or 1
  sockTime, events,
  breaker,    \* of the thread that breaks: "idle", "flagged"
  late,       \* listeners called since break_ was set, of sockets and of timers
  udp         \* the UdpSocket

setUp == <<win32, socketListeners_, timerListeners_>>
outside == <<sockTime, events, breaker>>
loopVars == <<setUp, break_, breakPipe_, mux, inbox, outside, late>>
socketVars == <<loopVars, udp>>

Forever == SocketTime + 1
NoAddress == "none"
NoneLate == [sockets |-> 0, timers |-> 0]

MuxOff == [pc |-> "off", ready |-> {}, i |-> 1, queue |-> <<>>, until |-> 0, time |-> 0]
UdpNew == [isBound |-> FALSE, isConnected |-> FALSE, connectedAddr |-> NoAddress,
           kernelPeer |-> NoAddress, thrown |-> FALSE]

SocketsInit ==
  /\ win32 \in BOOLEAN
  /\ socketListeners_ = <<>> /\ timerListeners_ = <<>>
  /\ break_ = FALSE /\ breakPipe_ = 0
  /\ mux = MuxOff
  /\ inbox = [s \in Socket |-> <<>>]
  /\ sockTime = 0 /\ events = 0
  /\ breaker = "idle" /\ late = NoneLate
  /\ udp = UdpNew

At_(pc) == mux.pc = pc

-----------------------------------------------------------------------------
(* "only call the attach/detach methods _before_ calling Run" *)

Attach ==
  /\ At_("off")
  /\ \/ \E s \in Socket \ ToSet(socketListeners_) :
          socketListeners_' = Append(socketListeners_, s) /\ UNCHANGED timerListeners_
     \/ \E t \in TimerCall \ ToSet(timerListeners_) :
          timerListeners_' = Append(timerListeners_, t) /\ UNCHANGED socketListeners_
  /\ UNCHANGED <<win32, break_, breakPipe_, mux, inbox, outside, late, udp>>

Detach ==
  /\ At_("off")
  /\ \/ \E i \in DOMAIN socketListeners_ :
          socketListeners_' = RemoveAt(socketListeners_, i) /\ UNCHANGED timerListeners_
     \/ \E i \in DOMAIN timerListeners_ :
          timerListeners_' = RemoveAt(timerListeners_, i) /\ UNCHANGED socketListeners_
  /\ UNCHANGED <<win32, break_, breakPipe_, mux, inbox, outside, late, udp>>

-----------------------------------------------------------------------------
(* Run *)

(* std::sort leaves calls that are due together in any order. *)
Sorted(q) == \A i, j \in DOMAIN q : i < j => q[i].due <= q[j].due
InOrder(queue) ==
  {q \in {[i \in DOMAIN queue |-> queue[p[i]]] : p \in Bijection(DOMAIN queue, DOMAIN queue)} : Sorted(q)}

FirstCalls ==
  [i \in DOMAIN timerListeners_ |->
    [due |-> sockTime + timerListeners_[i].delay, timer |-> timerListeners_[i]]]

RunBegin ==
  /\ At_("off")
  /\ break_' = FALSE /\ late' = NoneLate
  /\ \E q \in InOrder(FirstCalls) : mux' = [MuxOff EXCEPT !.pc = "top", !.queue = q]
  /\ UNCHANGED <<setUp, breakPipe_, inbox, outside, udp>>

(* The head of the while: the end, or a wait until the first timer is due.  *)
Wait ==
  /\ At_("top")
  /\ mux' = IF break_ THEN MuxOff
            ELSE [mux EXCEPT !.pc = "wait",
                   !.until = IF mux.queue = <<>> THEN Forever ELSE Head(mux.queue).due]
  /\ UNCHANGED <<setUp, break_, breakPipe_, inbox, outside, late, udp>>

Readable_(s) == s \in ToSet(socketListeners_) /\ inbox[s] # <<>>

(* What is received from: on posix what select tells, on win32 the socket   *)
(* of the first event that is set and all behind it.                        *)
Ready ==
  IF ~win32 THEN {s \in Socket : Readable_(s)}
  ELSE {socketListeners_[i] : i \in {j \in DOMAIN socketListeners_ :
          \E k \in 1..j : Readable_(socketListeners_[k])}}

(* The wait is over: clear what broke it, see whether to end. *)
Wake ==
  /\ At_("wait")
  /\ Ready # {} \/ breakPipe_ > 0 \/ sockTime >= mux.until
  /\ breakPipe_' = IF breakPipe_ > 0 /\ (win32 => Ready = {}) THEN breakPipe_ - 1 ELSE breakPipe_
  /\ mux' = IF break_ THEN MuxOff ELSE [mux EXCEPT !.pc = "sockets", !.ready = Ready, !.i = 1]
  /\ UNCHANGED <<setUp, break_, inbox, outside, late, udp>>

(* select is interrupted by a signal and leaves its sets as they were given *)
(* to it: the break pipe looks ready, and the loop reads from it.           *)
Interrupted ==
  /\ At_("wait") /\ ~win32
  /\ mux' = [mux EXCEPT !.pc = "pipe", !.ready = ToSet(socketListeners_)]
  /\ UNCHANGED <<setUp, break_, breakPipe_, inbox, outside, late, udp>>

PipeRead ==
  /\ At_("pipe") /\ breakPipe_ > 0
  /\ breakPipe_' = breakPipe_ - 1
  /\ mux' = IF break_ THEN MuxOff ELSE [mux EXCEPT !.pc = "sockets", !.i = 1]
  /\ UNCHANGED <<setUp, break_, inbox, outside, late, udp>>

(* A listener is called: it may call Break. *)
Called(kind, breaks) ==
  /\ break_' = (break_ \/ breaks)
  /\ late' = IF break_ THEN [late EXCEPT ![kind] = @ + 1] ELSE late

ToTimers == [mux EXCEPT !.pc = "timers", !.i = 1, !.time = sockTime]

(* Receive one datagram of the next socket; the posix socket blocks when    *)
(* there is none.                                                           *)
Receive(breaks) ==
  LET s == socketListeners_[mux.i]
      reads == s \in mux.ready /\ inbox[s] # <<>>
      calls == reads /\ Head(inbox[s]) > 0
  IN
  /\ At_("sockets") /\ mux.i <= Len(socketListeners_)
  /\ s \in mux.ready => reads \/ win32
  /\ IF calls THEN Called("sockets", breaks) ELSE ~breaks /\ UNCHANGED <<win32, break_, late>>
  /\ inbox' = IF reads THEN [inbox EXCEPT ![s] = Tail(@)] ELSE inbox
  /\ mux' = IF calls /\ break_' THEN ToTimers ELSE [mux EXCEPT !.i = @ + 1]
  /\ UNCHANGED <<setUp, breakPipe_, outside, udp>>

SocketsDone ==
  /\ At_("sockets") /\ mux.i > Len(socketListeners_)
  /\ mux' = ToTimers
  /\ UNCHANGED <<setUp, break_, breakPipe_, inbox, outside, late, udp>>

Due == mux.i <= Len(mux.queue) /\ mux.queue[mux.i].due <= mux.time

(* Mutant: the loop over the timers does not look at break_. *)
ExpireOnAndOn(breaks) ==
  /\ At_("timers") /\ Due
  /\ Called("timers", breaks)
  /\ mux' = [mux EXCEPT !.queue[mux.i].due = @ + mux.queue[mux.i].timer.period, !.i = @ + 1]
  /\ UNCHANGED <<setUp, breakPipe_, inbox, outside, udp>>

(* One expired timer: the next call is a period after the one that was due. *)
Expire(breaks) ==
  /\ At_("timers") /\ Due
  /\ Called("timers", breaks)
  /\ mux' = IF break_' THEN [mux EXCEPT !.pc = "top"]
            ELSE [mux EXCEPT !.queue[mux.i].due = @ + mux.queue[mux.i].timer.period, !.i = @ + 1]
  /\ UNCHANGED <<setUp, breakPipe_, inbox, outside, udp>>

(* Mutant: the queue is not sorted again. *)
TimersDoneUnsorted ==
  /\ At_("timers") /\ ~Due
  /\ mux' = [mux EXCEPT !.pc = "top"]
  /\ UNCHANGED <<setUp, break_, breakPipe_, inbox, outside, late, udp>>

(* Sorted again when a timer has expired. *)
TimersDone ==
  /\ At_("timers") /\ ~Due
  /\ \E q \in IF mux.i > 1 THEN InOrder(mux.queue) ELSE {mux.queue} :
       mux' = [mux EXCEPT !.pc = "top", !.queue = q]
  /\ UNCHANGED <<setUp, break_, breakPipe_, inbox, outside, late, udp>>

LoopStep ==
  \/ Wait \/ Wake \/ PipeRead \/ SocketsDone \/ TimersDone
  \/ \E breaks \in BOOLEAN : Receive(breaks) \/ Expire(breaks)

-----------------------------------------------------------------------------
(* AsynchronousBreak, of another thread: the flag, then the pipe. *)

AsynchronousBreak ==
  /\ breaker = "idle" /\ ~At_("off")
  /\ events < MaxEvents /\ events' = events + 1
  /\ break_' = TRUE /\ breaker' = "flagged"
  /\ UNCHANGED <<setUp, breakPipe_, mux, inbox, sockTime, late, udp>>

(* Mutant: nothing is written to the pipe. *)
BreakWriteNot ==
  /\ breaker = "flagged" /\ breaker' = "idle"
  /\ UNCHANGED <<setUp, break_, breakPipe_, mux, inbox, sockTime, events, late, udp>>

BreakWrite ==
  /\ breaker = "flagged" /\ breaker' = "idle"
  /\ breakPipe_' = IF win32 THEN 1 ELSE breakPipe_ + 1
  /\ UNCHANGED <<setUp, break_, mux, inbox, sockTime, events, late, udp>>

(* The network and the clock *)

Arrive(s, size) ==
  /\ events < MaxEvents /\ events' = events + 1
  /\ inbox' = [inbox EXCEPT ![s] = Append(@, size)]
  /\ UNCHANGED <<setUp, break_, breakPipe_, mux, sockTime, breaker, late, udp>>

(* The clock: what passes while no loop runs is told by nobody. *)
Pass ==
  /\ ~At_("off") /\ sockTime < SocketTime /\ sockTime' = sockTime + 1
  /\ UNCHANGED <<setUp, break_, breakPipe_, mux, inbox, events, breaker, late, udp>>

-----------------------------------------------------------------------------
(* UdpSocket.  The kernel refuses a connect, a bind or getsockname at will. *)

ThrowKeeping(peer) == udp' = [udp EXCEPT !.thrown = TRUE, !.kernelPeer = peer]

Bind ==
  /\ ~udp.isBound
  /\ \/ udp' = [udp EXCEPT !.isBound = TRUE]
     \/ ThrowKeeping(udp.kernelPeer)
  /\ UNCHANGED loopVars

Connect(p) ==
  /\ \/ udp' = [udp EXCEPT !.isConnected = TRUE, !.connectedAddr = p, !.kernelPeer = p]
     \/ udp' = [udp EXCEPT !.connectedAddr = p, !.thrown = TRUE]
  /\ UNCHANGED loopVars

(* Mutant: a socket that was not connected stays connected. *)
LocalEndpointForLeft(p) ==
  /\ udp.isBound
  /\ \/ ThrowKeeping(udp.kernelPeer) \/ ThrowKeeping(p)
     \/ udp' = [udp EXCEPT !.kernelPeer = IF udp.isConnected THEN udp.connectedAddr ELSE p]
  /\ UNCHANGED loopVars

(* Connect to the remote end, ask for the local name, and back; each of the *)
(* three calls may fail.                                                    *)
LocalEndpointFor(p) ==
  LET back == IF udp.isConnected THEN udp.connectedAddr ELSE NoAddress IN
  /\ udp.isBound
  /\ \/ ThrowKeeping(udp.kernelPeer) \/ ThrowKeeping(p)
     \/ udp' = [udp EXCEPT !.kernelPeer = back]
  /\ UNCHANGED loopVars

UdpStep == Bind \/ \E p \in Peer : Connect(p) \/ LocalEndpointFor(p)

-----------------------------------------------------------------------------
MuxNext ==
  \/ Attach \/ Detach \/ RunBegin \/ LoopStep \/ Interrupted
  \/ AsynchronousBreak \/ BreakWrite
  \/ \E s \in Socket, size \in 0..1 : Arrive(s, size)
  \/ Pass

(* The loop and the socket, in any order. *)
SocketsSpec == SocketsInit /\ [][MuxNext \/ UdpStep]_socketVars

-----------------------------------------------------------------------------
(* Properties *)

(* UdpSocket.h:70-71 "call this from a listener to exit once the listener   *)
(* returns": when the loop is told to end, one listener of a socket and one *)
(* of a timer are called at the most, the ones it was about to call.        *)
BreakIsHeeded == late.sockets <= 1 /\ late.timers <= 1

(* The loop sleeps until the earliest of its timers is due, for ever when   *)
(* it has none, and while it runs it loses no timer that was attached,      *)
(* however it reorders its queue.                                           *)
TimersAreKept ==
  /\ At_("wait") =>
       /\ \A i \in DOMAIN mux.queue : mux.until <= mux.queue[i].due
       /\ mux.until \in {Forever} \cup {mux.queue[i].due : i \in DOMAIN mux.queue}
  /\ ~At_("off") => {mux.queue[i].timer : i \in DOMAIN mux.queue} = ToSet(timerListeners_)

(* LocalEndpointFor leaves the socket as it was: the kernel sends and       *)
(* receives for the address that Connect was given, or for all when it was  *)
(* given none, as long as no call has failed.                               *)
PeerIsKept ==
  ~udp.thrown => udp.kernelPeer = IF udp.isConnected THEN udp.connectedAddr ELSE NoAddress

(* A UDP socket and the loop around it do what UdpSocket.h says of them.    *)
SocketsKeepTheirWord == BreakIsHeeded /\ TimersAreKept /\ PeerIsKept

(* A loop that was interrupted waits for a byte in a pipe in which there is *)
(* none, or for a datagram at a socket that has none.                       *)
Hung ==
  \/ At_("pipe") /\ breakPipe_ = 0
  \/ At_("sockets") /\ ~ENABLED LoopStep

(* A loop that is told to end does, and a datagram that has come is         *)
(* received while the loop runs, unless a signal has interrupted the wait.  *)
(* The sockets are attached in any order, so one stands for all.            *)
LoopServes ==
  LET s == CHOOSE x \in Socket : TRUE IN
  /\ break_ /\ ~At_("off") ~> At_("off") \/ (Hung /\ ~At_("pipe"))
  /\ ~At_("off") /\ Readable_(s) ~> At_("off") \/ ~Readable_(s) \/ Hung

=============================================================================
