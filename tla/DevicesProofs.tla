---------------------------- MODULE DevicesProofs ---------------------------
(***************************************************************************)
(* Proofs about what the library does to the operating system: the loop of *)
(* sockets and timers and the socket of one command, the Thread and the     *)
(* Semaphore, the script and the hash in their files, the mutex of an       *)
(* OscMapCommand and the registration of a service.  The machines share no  *)
(* state, and each is proved alone, for any values of its constants.        *)
(***************************************************************************)
EXTENDS Sockets, Threads, Files, OscMapCommand, Registration,
        FiniteSetTheorems, SequenceTheorems, WellFoundedInduction, TLAPS

-----------------------------------------------------------------------------
(* Sockets *)

MuxPc == {"off", "top", "wait", "pipe", "sockets", "timers"}
Scheduled == [due : Nat, timer : TimerCall]
Address == Peer \cup {NoAddress}

MuxType ==
  [pc : MuxPc, ready : SUBSET Socket, i : Nat, queue : Seq(Scheduled), until : Nat, time : Nat]

LateType == [sockets : Nat, timers : Nat]
UdpType ==
  [isBound : BOOLEAN, isConnected : BOOLEAN, connectedAddr : Address,
   kernelPeer : Address, thrown : BOOLEAN]

SocketsTypeOK ==
  /\ win32 \in BOOLEAN
  /\ socketListeners_ \in Seq(Socket) /\ timerListeners_ \in Seq(TimerCall)
  /\ break_ \in BOOLEAN /\ breakPipe_ \in Nat
  /\ mux \in MuxType /\ mux.i >= 1
  /\ inbox \in [Socket -> Seq(0..1)]
  /\ sockTime \in Nat /\ events \in Nat /\ breaker \in {"idle", "flagged"}
  /\ late \in LateType /\ udp \in UdpType

(* Where the loop is tells how many listeners it can have called since it   *)
(* was told to end.                                                         *)
LateInv ==
  /\ ~break_ => late = NoneLate
  /\ mux.pc \in {"wait", "pipe", "sockets"} => late = NoneLate
  /\ mux.pc = "timers" => late.sockets <= 1 /\ late.timers = 0
  /\ late.sockets <= 1 /\ late.timers <= 1

(* The queue is in order but while timers expire, and once a timer that     *)
(* expired has ended the loop.                                              *)
QueueInv ==
  /\ mux.pc \in {"wait", "pipe", "sockets"} => Sorted(mux.queue)
  /\ mux.pc = "top" /\ ~break_ => Sorted(mux.queue)
  /\ mux.pc = "timers" /\ mux.i = 1 => Sorted(mux.queue)

TimersOf(queue) == {queue[i].timer : i \in DOMAIN queue}

SocketsInv == SocketsTypeOK /\ LateInv /\ QueueInv /\ TimersAreKept /\ PeerIsKept

(* What is said of a queue carries over to its elements in another order.   *)
LEMMA InOrderSound ==
  ASSUME NEW q \in Seq(Scheduled), NEW r \in InOrder(q)
  PROVE  r \in Seq(Scheduled) /\ Sorted(r) /\ TimersOf(r) = TimersOf(q)
<1>1. PICK p \in Bijection(DOMAIN q, DOMAIN q) : r = [i \in DOMAIN q |-> q[p[i]]]
  BY DEF InOrder
<1>2. Sorted(r)
  BY DEF InOrder
<1>3. /\ p \in [DOMAIN q -> DOMAIN q]
      /\ \A t \in DOMAIN q : \E s \in DOMAIN q : p[s] = t
  BY <1>1 DEF Bijection, Injection, Surjection
<1>4. DOMAIN q = 1..Len(q) /\ Len(q) \in Nat /\ \A i \in DOMAIN q : q[i] \in Scheduled
  OBVIOUS
<1>5. r \in [1..Len(q) -> Scheduled]
  BY <1>1, <1>3, <1>4
<1>6. r \in Seq(Scheduled)
  BY <1>4, <1>5
<1>7. TimersOf(r) = TimersOf(q)
  <2>1. DOMAIN r = DOMAIN q /\ \A i \in DOMAIN q : r[i] = q[p[i]] /\ p[i] \in DOMAIN q
    BY <1>1, <1>3
  <2>2. \A x \in TimersOf(r) : x \in TimersOf(q)
    BY <2>1 DEF TimersOf
  <2>3. \A x \in TimersOf(q) : x \in TimersOf(r)
    <3> SUFFICES ASSUME NEW x \in TimersOf(q)
                 PROVE  x \in TimersOf(r)
      OBVIOUS
    <3>1. PICK t \in DOMAIN q : x = q[t].timer
      BY DEF TimersOf
    <3>2. PICK s \in DOMAIN q : p[s] = t
      BY <1>3
    <3>3. s \in DOMAIN r /\ x = r[s].timer
      BY <2>1, <3>1, <3>2, Zenon
    <3>4. QED
      BY <3>3 DEF TimersOf
  <2>4. QED
    BY <2>2, <2>3
<1>8. QED
  BY <1>2, <1>6, <1>7

(* The timers are first due after their initial delay.                      *)
LEMMA FirstCallsSound ==
  ASSUME SocketsTypeOK
  PROVE  FirstCalls \in Seq(Scheduled) /\ TimersOf(FirstCalls) = ToSet(timerListeners_)
<1>1. timerListeners_ \in Seq(TimerCall) /\ sockTime \in Nat
  BY DEF SocketsTypeOK
<1>2. DOMAIN timerListeners_ = 1..Len(timerListeners_) /\ Len(timerListeners_) \in Nat
  BY <1>1
<1>3. \A i \in DOMAIN timerListeners_ :
        timerListeners_[i] \in TimerCall /\ sockTime + timerListeners_[i].delay \in Nat
  BY <1>1, <1>2, SocketsAssumption
<1>4. FirstCalls \in [1..Len(timerListeners_) -> Scheduled]
  BY <1>2, <1>3 DEF FirstCalls, Scheduled
<1>5. DOMAIN FirstCalls = DOMAIN timerListeners_
      /\ \A i \in DOMAIN timerListeners_ : FirstCalls[i].timer = timerListeners_[i]
  BY DEF FirstCalls
<1>6. TimersOf(FirstCalls) = ToSet(timerListeners_)
  BY <1>5 DEF TimersOf, ToSet
<1>7. QED
  BY <1>2, <1>4, <1>6

(* An element is removed from a list.                                       *)
LEMMA RemoveAtType ==
  ASSUME NEW S, NEW s \in Seq(S), NEW i \in DOMAIN s
  PROVE  RemoveAt(s, i) \in Seq(S)
<1>1. SubSeq(s, 1, i - 1) \in Seq(S)
  <2>1. i \in 1..Len(s) /\ Len(s) \in Nat
    OBVIOUS
  <2>2. \A k \in 1..(i - 1) : s[k] \in S
    BY <2>1
  <2>3. QED
    BY <2>1, <2>2
<1>2. SubSeq(s, i + 1, Len(s)) \in Seq(S)
  OBVIOUS
<1>3. QED
  BY <1>1, <1>2 DEF RemoveAt

(* A timer that expires keeps its place and its timer in the queue.         *)
LEMMA ExpiredQueue ==
  ASSUME NEW q \in Seq(Scheduled), NEW i \in DOMAIN q,
         NEW r, r = [q EXCEPT ![i].due = @ + q[i].timer.period]
  PROVE  r \in Seq(Scheduled) /\ TimersOf(r) = TimersOf(q)
<1>1. DOMAIN q = 1..Len(q) /\ Len(q) \in Nat /\ \A k \in DOMAIN q : q[k] \in Scheduled
  OBVIOUS
<1>2. q[i].due + q[i].timer.period \in Nat
  BY <1>1, SocketsAssumption DEF Scheduled
<1>3. DOMAIN r = DOMAIN q /\ \A k \in DOMAIN q :
        r[k] = IF k = i THEN [q[i] EXCEPT !.due = @ + q[i].timer.period] ELSE q[k]
  OBVIOUS
<1>4. \A k \in DOMAIN q : r[k] \in Scheduled /\ r[k].timer = q[k].timer
  BY <1>1, <1>2, <1>3 DEF Scheduled
<1>5. r \in Seq(Scheduled)
  BY <1>1, <1>3, <1>4
<1>6. TimersOf(r) = TimersOf(q)
  BY <1>3, <1>4 DEF TimersOf
<1>7. QED
  BY <1>5, <1>6

LEMMA NoneLateType == NoneLate \in LateType
BY DEF NoneLate, LateType

LEMMA SocketsInitially == SocketsInit => SocketsInv
<1> SUFFICES ASSUME SocketsInit
             PROVE  SocketsInv
  OBVIOUS
<1>1. mux \in MuxType
  BY DEF SocketsInit, MuxOff, MuxType, MuxPc
<1>2. udp \in UdpType
  BY DEF SocketsInit, UdpNew, UdpType, Address
<1>3. inbox \in [Socket -> Seq(0..1)]
  <2>1. inbox = [s \in Socket |-> <<>>]
    BY DEF SocketsInit
  <2>2. \A x \in Seq(0..1) : [s \in Socket |-> x] \in [Socket -> Seq(0..1)]
    OBVIOUS
  <2>3. <<>> \in Seq(0..1)
    BY EmptySeq
  <2>4. QED
    BY <2>1, <2>2, <2>3
<1>4. late \in LateType
  BY NoneLateType DEF SocketsInit
<1>5. /\ win32 \in BOOLEAN /\ break_ \in BOOLEAN /\ breakPipe_ \in Nat
      /\ socketListeners_ \in Seq(Socket) /\ timerListeners_ \in Seq(TimerCall)
      /\ sockTime \in Nat /\ events \in Nat /\ breaker \in {"idle", "flagged"}
  BY EmptySeq DEF SocketsInit
<1>11. mux.i >= 1
  BY DEF SocketsInit, MuxOff
<1>6. SocketsTypeOK
  BY <1>1, <1>2, <1>3, <1>4, <1>5, <1>11 DEF SocketsTypeOK
<1>7. LateInv
  BY DEF SocketsInit, LateInv, NoneLate, MuxOff
<1>8. QueueInv /\ TimersAreKept
  BY DEF SocketsInit, QueueInv, TimersAreKept, MuxOff, At_
<1>9. PeerIsKept
  BY DEF SocketsInit, PeerIsKept, UdpNew
<1>10. QED
  BY <1>6, <1>7, <1>8, <1>9 DEF SocketsInv

(* What the loop's record may become. *)
LEMMA NextIndex == ASSUME NEW m \in MuxType PROVE [m EXCEPT !.i = @ + 1] \in MuxType
BY DEF MuxType

LEMMA MuxUpdates ==
  ASSUME NEW m \in MuxType
  PROVE  /\ MuxOff \in MuxType
         /\ \A pc \in MuxPc : [m EXCEPT !.pc = pc] \in MuxType
         /\ \A u \in Nat : [m EXCEPT !.pc = "wait", !.until = u] \in MuxType
         /\ \A R \in SUBSET Socket : [m EXCEPT !.pc = "sockets", !.ready = R, !.i = 1] \in MuxType
         /\ \A R \in SUBSET Socket : [m EXCEPT !.pc = "pipe", !.ready = R] \in MuxType
         /\ [m EXCEPT !.pc = "sockets", !.i = 1] \in MuxType
         /\ [m EXCEPT !.i = @ + 1] \in MuxType
         /\ \A t \in Nat : [m EXCEPT !.pc = "timers", !.i = 1, !.time = t] \in MuxType
         /\ \A q \in Seq(Scheduled) : [m EXCEPT !.queue = q, !.i = @ + 1] \in MuxType
         /\ \A q \in Seq(Scheduled) : [m EXCEPT !.pc = "top", !.queue = q] \in MuxType
<1> USE DEF MuxType, MuxPc
<1>1. MuxOff \in MuxType
  BY DEF MuxOff
<1>2. \A pc \in MuxPc : [m EXCEPT !.pc = pc] \in MuxType
  OBVIOUS
<1>3. \A u \in Nat : [m EXCEPT !.pc = "wait", !.until = u] \in MuxType
  OBVIOUS
<1>4. \A R \in SUBSET Socket : [m EXCEPT !.pc = "sockets", !.ready = R, !.i = 1] \in MuxType
  OBVIOUS
<1>5. \A R \in SUBSET Socket : [m EXCEPT !.pc = "pipe", !.ready = R] \in MuxType
  OBVIOUS
<1>6. [m EXCEPT !.pc = "sockets", !.i = 1] \in MuxType
  OBVIOUS
<1>7. [m EXCEPT !.i = @ + 1] \in MuxType
  BY NextIndex
<1>8. \A t \in Nat : [m EXCEPT !.pc = "timers", !.i = 1, !.time = t] \in MuxType
  OBVIOUS
<1>9. ASSUME NEW q \in Seq(Scheduled)
      PROVE  [m EXCEPT !.queue = q, !.i = @ + 1] \in MuxType
  <2>1. [m EXCEPT !.queue = q] \in MuxType
    OBVIOUS
  <2>2. PICK n \in MuxType : n = [m EXCEPT !.queue = q]
    BY <2>1
  <2>3. [n EXCEPT !.i = @ + 1] = [m EXCEPT !.queue = q, !.i = @ + 1]
    BY <2>2
  <2>4. [n EXCEPT !.i = @ + 1] \in MuxType
    BY NextIndex
  <2>5. QED
    BY <2>3, <2>4
<1>10. ASSUME NEW q \in Seq(Scheduled)
       PROVE  [m EXCEPT !.pc = "top", !.queue = q] \in MuxType
  <2>1. [m EXCEPT !.queue = q] \in MuxType
    OBVIOUS
  <2>2. PICK n \in MuxType : n = [m EXCEPT !.queue = q]
    BY <2>1
  <2>3. [n EXCEPT !.pc = "top"] = [m EXCEPT !.pc = "top", !.queue = q]
    BY <2>2
  <2>4. [n EXCEPT !.pc = "top"] \in MuxType
    OBVIOUS
  <2>5. QED
    BY <2>3, <2>4
<1>11. QED
  BY <1>1, <1>2, <1>3, <1>4, <1>5, <1>6, <1>7, <1>8, <1>9, <1>10

(* The type invariant, variable by variable. *)
LEMMA SocketsTypes ==
  SocketsTypeOK =>
    /\ win32 \in BOOLEAN /\ break_ \in BOOLEAN /\ breakPipe_ \in Nat
    /\ socketListeners_ \in Seq(Socket) /\ timerListeners_ \in Seq(TimerCall)
    /\ mux \in MuxType /\ mux.i >= 1 /\ mux.i \in Nat
    /\ mux.queue \in Seq(Scheduled) /\ mux.ready \in SUBSET Socket /\ mux.pc \in MuxPc
    /\ inbox \in [Socket -> Seq(0..1)]
    /\ sockTime \in Nat /\ late \in LateType
BY DEF SocketsTypeOK, MuxType

(* Attach and Detach: before the loop runs. *)
LEMMA AttachSound ==
  ASSUME SocketsInv, Attach \/ Detach
  PROVE  SocketsInv'
<1>1. SocketsTypeOK /\ At_("off")
  BY DEF SocketsInv, Attach, Detach
<1>2. /\ UNCHANGED <<win32, break_, breakPipe_, mux, inbox, late, udp>>
      /\ UNCHANGED <<sockTime, events, breaker>>
  BY DEF Attach, Detach, outside
<1>3. socketListeners_' \in Seq(Socket) /\ timerListeners_' \in Seq(TimerCall)
  <2>1. socketListeners_ \in Seq(Socket) /\ timerListeners_ \in Seq(TimerCall)
    BY <1>1, SocketsTypes
  <2>2. CASE Attach
    <3>1. \A x \in Socket : Append(socketListeners_, x) \in Seq(Socket)
      BY <2>1, AppendProperties
    <3>2. \A x \in TimerCall : Append(timerListeners_, x) \in Seq(TimerCall)
      BY <2>1, AppendProperties
    <3>3. QED
      BY <2>1, <2>2, <3>1, <3>2 DEF Attach
  <2>3. CASE Detach
    BY <2>1, <2>3, RemoveAtType DEF Detach
  <2>4. QED
    BY <2>2, <2>3
<1>4. SocketsTypeOK'
  BY <1>1, <1>2, <1>3 DEF SocketsTypeOK
<1>5. QED
  BY <1>1, <1>2, <1>4 DEF SocketsInv, LateInv, QueueInv, TimersAreKept, PeerIsKept, At_

LEMMA RunBeginSound ==
  ASSUME SocketsInv, RunBegin
  PROVE  SocketsInv'
<1>1. SocketsTypeOK /\ PeerIsKept
  BY DEF SocketsInv
<1>2. PICK q \in InOrder(FirstCalls) : mux' = [MuxOff EXCEPT !.pc = "top", !.queue = q]
  BY DEF RunBegin
<1>3. q \in Seq(Scheduled) /\ Sorted(q) /\ TimersOf(q) = ToSet(timerListeners_)
  BY <1>1, FirstCallsSound, InOrderSound
<1>4. /\ UNCHANGED <<win32, socketListeners_, timerListeners_, breakPipe_, inbox, udp>>
      /\ UNCHANGED <<sockTime, events, breaker>>
      /\ break_' = FALSE /\ late' = NoneLate
  BY DEF RunBegin, setUp, outside
<1>5. mux'.pc = "top" /\ mux'.queue = q /\ mux'.i = 1
  BY <1>2 DEF MuxOff
<1>6. SocketsTypeOK'
  <2>1. mux' \in MuxType
    BY <1>1, <1>2, <1>3, MuxUpdates, SocketsTypes
  <2>2. late' \in LateType
    BY <1>4, NoneLateType
  <2>3. /\ win32' \in BOOLEAN /\ break_' \in BOOLEAN /\ breakPipe_' \in Nat
        /\ socketListeners_' \in Seq(Socket) /\ timerListeners_' \in Seq(TimerCall)
        /\ inbox' \in [Socket -> Seq(0..1)]
        /\ sockTime' \in Nat /\ events' \in Nat /\ breaker' \in {"idle", "flagged"}
        /\ udp' \in UdpType
    BY <1>1, <1>4 DEF SocketsTypeOK
  <2>4. mux'.i >= 1
    BY <1>5
  <2>5. QED
    BY <2>1, <2>2, <2>3, <2>4 DEF SocketsTypeOK
<1>7. LateInv'
  BY <1>4, <1>5 DEF LateInv, NoneLate
<1>8. QueueInv'
  BY <1>3, <1>5 DEF QueueInv
<1>9. TimersAreKept'
  BY <1>3, <1>4, <1>5 DEF TimersAreKept, At_, TimersOf
<1>10. PeerIsKept'
  BY <1>1, <1>4 DEF PeerIsKept
<1>11. QED
  BY <1>6, <1>7, <1>8, <1>9, <1>10 DEF SocketsInv

(* The steps of the loop that change its record alone, or the pipe too, and *)
(* that call nobody.                                                        *)
QuietLoop ==
  /\ UNCHANGED <<win32, socketListeners_, timerListeners_, break_, inbox, late, udp>>
  /\ UNCHANGED <<sockTime, events, breaker>>
  /\ breakPipe_' \in Nat

LEMMA QuietSound ==
  ASSUME SocketsInv, QuietLoop, mux' \in MuxType, mux'.i >= 1
  PROVE  SocketsTypeOK' /\ PeerIsKept'
<1>1. SocketsTypeOK /\ PeerIsKept
  BY DEF SocketsInv
<1>2. SocketsTypeOK'
  <2>1. /\ win32' \in BOOLEAN /\ break_' \in BOOLEAN /\ breakPipe_' \in Nat
        /\ socketListeners_' \in Seq(Socket) /\ timerListeners_' \in Seq(TimerCall)
        /\ inbox' \in [Socket -> Seq(0..1)]
        /\ sockTime' \in Nat /\ events' \in Nat /\ breaker' \in {"idle", "flagged"}
        /\ late' \in LateType /\ udp' \in UdpType
    BY <1>1 DEF SocketsTypeOK, QuietLoop
  <2>2. QED
    BY <2>1 DEF SocketsTypeOK
<1>3. PeerIsKept'
  BY <1>1 DEF PeerIsKept, QuietLoop
<1>4. QED
  BY <1>2, <1>3

(* The loop is over. *)
LEMMA OffSound ==
  ASSUME SocketsInv, QuietLoop, mux' = MuxOff
  PROVE  SocketsInv'
<1>1. mux' \in MuxType /\ mux'.i >= 1
  <2>1. MuxOff \in MuxType
    BY SocketsTypes, MuxUpdates DEF SocketsInv
  <2>2. MuxOff.i >= 1
    BY DEF MuxOff
  <2>3. QED
    BY <2>1, <2>2
<1>2. SocketsTypeOK' /\ PeerIsKept'
  BY <1>1, QuietSound
<1>3. mux'.pc = "off"
  BY DEF MuxOff
<1>4. LateInv'
  BY <1>3 DEF SocketsInv, LateInv, QuietLoop
<1>5. QueueInv' /\ TimersAreKept'
  BY <1>3 DEF QueueInv, TimersAreKept, At_
<1>6. QED
  BY <1>2, <1>4, <1>5 DEF SocketsInv


LEMMA WaitSound ==
  ASSUME SocketsInv, Wait
  PROVE  SocketsInv'
<1>1. SocketsTypeOK /\ LateInv /\ QueueInv /\ TimersAreKept /\ At_("top")
  BY DEF SocketsInv, Wait
<1>2. QuietLoop
  <2>1. breakPipe_ \in Nat
    BY <1>1, SocketsTypes
  <2>2. QED
    BY <2>1 DEF Wait, QuietLoop, setUp, outside
<1>3. CASE break_
  BY <1>2, <1>3, OffSound DEF Wait
<1>4. CASE ~break_
  <2>1. PICK u : u = IF mux.queue = <<>> THEN Forever ELSE Head(mux.queue).due
    OBVIOUS
  <2>2. mux' = [mux EXCEPT !.pc = "wait", !.until = u]
    BY <1>4, <2>1 DEF Wait
  <2>3. mux.queue \in Seq(Scheduled) /\ mux \in MuxType /\ mux.i >= 1 /\ Sorted(mux.queue)
    BY <1>1, <1>4, SocketsTypes DEF QueueInv, At_
  <2>4. /\ u \in Nat
        /\ \A i \in DOMAIN mux.queue : u <= mux.queue[i].due
        /\ u \in {Forever} \cup {mux.queue[i].due : i \in DOMAIN mux.queue}
    <3>1. CASE mux.queue = <<>>
      BY <2>1, <3>1, SocketsAssumption DEF Forever
    <3>2. CASE mux.queue # <<>>
      <4>1. 1 \in DOMAIN mux.queue /\ u = mux.queue[1].due
        BY <2>1, <2>3, <3>2
      <4>2. \A i \in DOMAIN mux.queue : mux.queue[i] \in Scheduled /\ (i = 1 \/ 1 < i)
        BY <2>3
      <4>3. \A i \in DOMAIN mux.queue : mux.queue[i].due \in Nat
        BY <4>2 DEF Scheduled
      <4>4. \A i \in DOMAIN mux.queue : u <= mux.queue[i].due
        BY <2>3, <4>1, <4>2, <4>3 DEF Sorted
      <4>5. QED
        BY <4>1, <4>3, <4>4
    <3>3. QED
      BY <3>1, <3>2
  <2>5. mux' \in MuxType
    BY <2>2, <2>3, <2>4, MuxUpdates
  <2>6. /\ mux'.pc = "wait" /\ mux'.queue = mux.queue /\ mux'.until = u /\ mux'.i = mux.i
    BY <2>2, <2>3 DEF MuxType
  <2>7. SocketsTypeOK' /\ PeerIsKept'
    BY <1>2, <2>3, <2>5, <2>6, QuietSound
  <2>8. LateInv'
    BY <1>1, <1>2, <1>4, <2>6 DEF LateInv, QuietLoop, NoneLate
  <2>9. QueueInv'
    BY <2>3, <2>6 DEF QueueInv
  <2>10. TimersAreKept'
    BY <1>1, <1>2, <2>4, <2>6 DEF TimersAreKept, At_, QuietLoop
  <2>11. QED
    BY <2>7, <2>8, <2>9, <2>10 DEF SocketsInv
<1>5. QED
  BY <1>1, <1>3, <1>4, SocketsTypes

(* The steps that keep the timers: their calls may change, and what is      *)
(* received and said of the listeners.                                      *)
LoopKeeps ==
  /\ UNCHANGED <<win32, socketListeners_, timerListeners_, udp>>
  /\ UNCHANGED <<sockTime, events, breaker>>
  /\ breakPipe_' \in Nat /\ break_' \in BOOLEAN /\ late' \in LateType
  /\ inbox' \in [Socket -> Seq(0..1)]
  /\ mux' \in MuxType /\ mux'.i >= 1
  /\ TimersOf(mux'.queue) = TimersOf(mux.queue)
  /\ mux.pc # "off" /\ mux'.pc \notin {"off", "wait"}

LEMMA KeepsSound ==
  ASSUME SocketsInv, LoopKeeps, LateInv', QueueInv'
  PROVE  SocketsInv'
<1>1. SocketsTypeOK /\ PeerIsKept /\ TimersAreKept
  BY DEF SocketsInv
<1>2. SocketsTypeOK'
  <2>1. /\ win32' \in BOOLEAN /\ break_' \in BOOLEAN /\ breakPipe_' \in Nat
        /\ socketListeners_' \in Seq(Socket) /\ timerListeners_' \in Seq(TimerCall)
        /\ inbox' \in [Socket -> Seq(0..1)]
        /\ sockTime' \in Nat /\ events' \in Nat /\ breaker' \in {"idle", "flagged"}
        /\ udp' \in UdpType
    BY <1>1 DEF SocketsTypeOK, LoopKeeps
  <2>2. late' \in LateType /\ mux' \in MuxType /\ mux'.i >= 1
    BY DEF LoopKeeps
  <2>3. QED
    BY <2>1, <2>2 DEF SocketsTypeOK
<1>3. PeerIsKept'
  BY <1>1 DEF PeerIsKept, LoopKeeps
<1>4. TimersAreKept'
  <2>1. TimersOf(mux.queue) = ToSet(timerListeners_)
    BY <1>1 DEF TimersAreKept, At_, LoopKeeps, TimersOf
  <2>2. TimersOf(mux'.queue) = ToSet(timerListeners_')
    BY <2>1 DEF LoopKeeps
  <2>3. QED
    BY <2>2 DEF TimersAreKept, At_, LoopKeeps, TimersOf
<1>5. QED
  BY <1>2, <1>3, <1>4 DEF SocketsInv

(* From the wait to the timers, the queue is left alone and nobody is       *)
(* called but the listeners of sockets.                                     *)
LEMMA MovesOnSound ==
  ASSUME SocketsInv, LoopKeeps, mux'.queue = mux.queue, UNCHANGED <<break_, late>>,
         mux.pc \in {"wait", "pipe", "sockets"}, mux'.pc \in {"pipe", "sockets", "timers"}
  PROVE  SocketsInv'
<1>1. LateInv'
  BY DEF SocketsInv, LateInv, NoneLate
<1>2. QueueInv'
  BY DEF SocketsInv, QueueInv
<1>3. QED
  BY <1>1, <1>2, KeepsSound

LEMMA WakeSound ==
  ASSUME SocketsInv, Wake \/ Interrupted \/ PipeRead \/ SocketsDone
  PROVE  SocketsInv'
<1>1. SocketsTypeOK
  BY DEF SocketsInv
<1>2. /\ breakPipe_ \in Nat /\ mux \in MuxType /\ mux.i >= 1
      /\ break_ \in BOOLEAN /\ late \in LateType
      /\ inbox \in [Socket -> Seq(0..1)] /\ sockTime \in Nat
  BY <1>1, SocketsTypes
<1>3. breakPipe_' \in Nat /\ UNCHANGED <<break_, late, inbox>>
  BY <1>2 DEF Wake, Interrupted, PipeRead, SocketsDone
<1>4. UNCHANGED <<win32, socketListeners_, timerListeners_, udp>> /\ UNCHANGED <<sockTime, events, breaker>>
  BY DEF Wake, Interrupted, PipeRead, SocketsDone, setUp, outside
<1>5. mux.pc \in {"wait", "pipe", "sockets"}
  BY DEF Wake, Interrupted, PipeRead, SocketsDone, At_
<1>6. CASE mux' = MuxOff
  <2>1. QuietLoop
    BY <1>3, <1>4 DEF QuietLoop
  <2>2. QED
    BY <1>6, <2>1, OffSound
<1>7. CASE mux' # MuxOff
  <2>1. Ready \in SUBSET Socket /\ ToSet(socketListeners_) \in SUBSET Socket
    <3>1. socketListeners_ \in Seq(Socket)
      BY <1>1, SocketsTypes
    <3>2. \A i \in DOMAIN socketListeners_ : socketListeners_[i] \in Socket
      BY <3>1
    <3>3. QED
      BY <3>2 DEF Ready, ToSet
  <2>2. \/ mux' = [mux EXCEPT !.pc = "sockets", !.ready = Ready, !.i = 1]
        \/ mux' = [mux EXCEPT !.pc = "pipe", !.ready = ToSet(socketListeners_)]
        \/ mux' = [mux EXCEPT !.pc = "sockets", !.i = 1]
        \/ mux' = [mux EXCEPT !.pc = "timers", !.i = 1, !.time = sockTime]
    BY <1>7 DEF Wake, Interrupted, PipeRead, SocketsDone, ToTimers
  <2>3. /\ mux' \in MuxType
        /\ mux'.i >= 1 /\ mux'.queue = mux.queue /\ mux'.pc \in {"pipe", "sockets", "timers"}
    <3>1. PICK R \in SUBSET Socket : R = Ready
      BY <2>1
    <3>2. PICK L \in SUBSET Socket : L = ToSet(socketListeners_)
      BY <2>1
    <3>3. CASE mux' = [mux EXCEPT !.pc = "sockets", !.ready = R, !.i = 1]
      <4>1. [mux EXCEPT !.pc = "sockets", !.ready = R, !.i = 1] \in MuxType
        BY <1>2, MuxUpdates
      <4>2. QED
        BY <1>2, <3>3, <4>1 DEF MuxType
    <3>4. CASE mux' = [mux EXCEPT !.pc = "pipe", !.ready = L]
      <4>1. [mux EXCEPT !.pc = "pipe", !.ready = L] \in MuxType
        BY <1>2, MuxUpdates
      <4>2. QED
        BY <1>2, <3>4, <4>1 DEF MuxType
    <3>5. CASE mux' = [mux EXCEPT !.pc = "sockets", !.i = 1]
      <4>1. [mux EXCEPT !.pc = "sockets", !.i = 1] \in MuxType
        BY <1>2, MuxUpdates
      <4>2. QED
        BY <1>2, <3>5, <4>1 DEF MuxType
    <3>6. CASE mux' = [mux EXCEPT !.pc = "timers", !.i = 1, !.time = sockTime]
      <4>1. [mux EXCEPT !.pc = "timers", !.i = 1, !.time = sockTime] \in MuxType
        BY <1>2, MuxUpdates
      <4>2. QED
        BY <1>2, <3>6, <4>1 DEF MuxType
    <3>7. QED
      BY <2>2, <3>1, <3>2, <3>3, <3>4, <3>5, <3>6
  <2>4. LoopKeeps
    BY <1>2, <1>3, <1>4, <1>5, <2>3 DEF LoopKeeps
  <2>5. QED
    BY <1>3, <1>5, <2>3, <2>4, MovesOnSound
<1>8. QED
  BY <1>6, <1>7

(* What calling a listener does to break_ and late, and what may follow.    *)
LEMMA CalledSound ==
  ASSUME SocketsTypeOK, LateInv, NEW kind \in {"sockets", "timers"}, NEW breaks \in BOOLEAN,
         Called(kind, breaks)
  PROVE  /\ break_' \in BOOLEAN /\ late' \in LateType
         /\ ~break_' => late' = NoneLate
         /\ mux.pc = "sockets" /\ kind = "sockets" => late'.sockets <= 1 /\ late'.timers = 0
         /\ mux.pc = "timers" /\ kind = "timers" => late'.sockets <= 1 /\ late'.timers <= 1
<1>1. break_ \in BOOLEAN /\ late \in LateType
  BY SocketsTypes
<1>2. break_' \in BOOLEAN /\ late' \in LateType
  BY <1>1 DEF Called, LateType
<1>3. ~break_' => late' = NoneLate
  BY <1>1 DEF Called, LateInv
<1>4. mux.pc = "sockets" /\ kind = "sockets" => late'.sockets <= 1 /\ late'.timers = 0
  BY <1>1 DEF Called, LateInv, LateType, NoneLate
<1>5. mux.pc = "timers" /\ kind = "timers" => late'.sockets <= 1 /\ late'.timers <= 1
  BY <1>1 DEF Called, LateInv, LateType
<1>6. QED
  BY <1>2, <1>3, <1>4, <1>5

LEMMA ReceiveSound ==
  ASSUME SocketsInv, NEW breaks \in BOOLEAN, Receive(breaks)
  PROVE  SocketsInv'
<1>1. SocketsTypeOK /\ LateInv /\ QueueInv
  BY DEF SocketsInv
<1>2. /\ breakPipe_ \in Nat /\ mux \in MuxType /\ mux.i >= 1 /\ mux.i \in Nat
      /\ break_ \in BOOLEAN /\ late \in LateType
      /\ inbox \in [Socket -> Seq(0..1)] /\ sockTime \in Nat
  BY <1>1, SocketsTypes
<1>2a. mux \in MuxType
  BY <1>2
<1>3. mux.pc = "sockets" /\ late = NoneLate
  BY <1>1 DEF Receive, At_, LateInv
<1>4. /\ UNCHANGED <<win32, socketListeners_, timerListeners_, udp, breakPipe_>>
      /\ UNCHANGED <<sockTime, events, breaker>>
  BY DEF Receive, setUp, outside
<1>5. inbox' \in [Socket -> Seq(0..1)]
  <2>1. \A s \in Socket : inbox[s] # <<>> => Tail(inbox[s]) \in Seq(0..1)
    BY <1>2
  <2>2. PICK s : s = socketListeners_[mux.i]
    OBVIOUS
  <2>3. \/ inbox' = inbox
        \/ inbox[s] # <<>> /\ inbox' = [inbox EXCEPT ![s] = Tail(@)]
    <3>1. inbox' = IF socketListeners_[mux.i] \in mux.ready /\ inbox[socketListeners_[mux.i]] # <<>>
                   THEN [inbox EXCEPT ![socketListeners_[mux.i]] = Tail(@)] ELSE inbox
      BY Zenon DEF Receive
    <3>2. QED
      BY <2>2, <3>1
  <2>4. CASE inbox' = inbox
    BY <1>2, <2>4
  <2>5. CASE inbox[s] # <<>> /\ inbox' = [inbox EXCEPT ![s] = Tail(@)]
    BY <1>2, <2>1, <2>5
  <2>6. QED
    BY <2>3, <2>4, <2>5
<1>6. \/ Called("sockets", breaks)
      \/ UNCHANGED <<break_, late>>
  BY DEF Receive
<1>7. /\ break_' \in BOOLEAN /\ late' \in LateType /\ (~break_' => late' = NoneLate)
      /\ late'.sockets <= 1 /\ late'.timers = 0
  <2>1. CASE Called("sockets", breaks)
    BY <1>1, <1>3, <2>1, CalledSound
  <2>2. CASE UNCHANGED <<break_, late>>
    BY <1>2, <1>3, <2>2 DEF NoneLate
  <2>3. QED
    BY <1>6, <2>1, <2>2
<1>8. \/ mux' = [mux EXCEPT !.pc = "timers", !.i = 1, !.time = sockTime]
      \/ mux' = [mux EXCEPT !.i = @ + 1] /\ late' = NoneLate
  <2>1. \/ Called("sockets", breaks) /\ break_' /\ mux' = ToTimers
        \/ Called("sockets", breaks) /\ ~break_' /\ mux' = [mux EXCEPT !.i = @ + 1]
        \/ late' = late /\ mux' = [mux EXCEPT !.i = @ + 1]
    BY DEF Receive
  <2>2. QED
    BY <1>3, <1>7, <2>1 DEF ToTimers
<1>9. /\ mux' \in MuxType /\ mux'.i >= 1 /\ mux'.queue = mux.queue
      /\ \/ mux'.pc = "timers"
         \/ mux'.pc = "sockets" /\ late' = NoneLate
  <2>1. CASE mux' = [mux EXCEPT !.pc = "timers", !.i = 1, !.time = sockTime]
    <3>1. [mux EXCEPT !.pc = "timers", !.i = 1, !.time = sockTime] \in MuxType
      BY <1>2, MuxUpdates
    <3>2. mux'.i = 1 /\ mux'.queue = mux.queue /\ mux'.pc = "timers"
      BY <1>2a, <2>1 DEF MuxType
    <3>3. mux'.i >= 1
      BY <3>2
    <3>4. mux' \in MuxType
      BY <2>1, <3>1
    <3>5. QED
      BY <3>2, <3>3, <3>4
  <2>2. CASE mux' = [mux EXCEPT !.i = @ + 1] /\ late' = NoneLate
    <3>1. [mux EXCEPT !.i = @ + 1] \in MuxType
      BY <1>2, MuxUpdates
    <3>2. mux'.i = mux.i + 1 /\ mux'.queue = mux.queue /\ mux'.pc = mux.pc
      BY <1>2a, <2>2 DEF MuxType
    <3>3. mux'.i >= 1
      BY <1>2, <3>2
    <3>4. QED
      BY <1>3, <2>2, <3>1, <3>2, <3>3
  <2>3. QED
    BY <1>8, <2>1, <2>2
<1>10. LateInv'
  BY <1>7, <1>9 DEF LateInv
<1>11. QueueInv'
  BY <1>1, <1>3, <1>9 DEF QueueInv
<1>12. LoopKeeps
  BY <1>2, <1>3, <1>4, <1>5, <1>7, <1>9 DEF LoopKeeps
<1>13. QED
  BY <1>10, <1>11, <1>12, KeepsSound

LEMMA ExpireSound ==
  ASSUME SocketsInv, NEW breaks \in BOOLEAN, Expire(breaks)
  PROVE  SocketsInv'
<1>1. SocketsTypeOK /\ LateInv /\ QueueInv
  BY DEF SocketsInv
<1>2. /\ breakPipe_ \in Nat /\ mux \in MuxType /\ mux.i >= 1 /\ mux.i \in Nat
      /\ mux.queue \in Seq(Scheduled)
      /\ break_ \in BOOLEAN /\ late \in LateType
      /\ inbox \in [Socket -> Seq(0..1)] /\ sockTime \in Nat
  BY <1>1, SocketsTypes
<1>3. mux.pc = "timers" /\ mux.i \in DOMAIN mux.queue
  BY <1>2 DEF Expire, Due, At_
<1>4. /\ UNCHANGED <<win32, socketListeners_, timerListeners_, udp, breakPipe_, inbox>>
      /\ UNCHANGED <<sockTime, events, breaker>>
  BY DEF Expire, setUp, outside
<1>5. /\ break_' \in BOOLEAN /\ late' \in LateType /\ (~break_' => late' = NoneLate)
      /\ late'.sockets <= 1 /\ late'.timers <= 1
  <2>1. Called("timers", breaks)
    BY DEF Expire
  <2>2. QED
    BY <1>1, <1>3, <2>1, CalledSound
<1>6. PICK r : r = [mux.queue EXCEPT ![mux.i].due = @ + mux.queue[mux.i].timer.period]
  OBVIOUS
<1>7. r \in Seq(Scheduled) /\ TimersOf(r) = TimersOf(mux.queue)
  BY <1>2, <1>3, <1>6, ExpiredQueue, ZenonT(60)
<1>8. \/ break_' /\ mux' = [mux EXCEPT !.pc = "top"]
      \/ ~break_' /\ mux' = [mux EXCEPT !.queue = r, !.i = @ + 1]
  BY <1>6 DEF Expire
<1>9. /\ mux' \in MuxType /\ mux'.i >= 1 /\ TimersOf(mux'.queue) = TimersOf(mux.queue)
      /\ \/ mux'.pc = "top" /\ break_'
         \/ mux'.pc = "timers" /\ ~break_' /\ mux'.i > 1
  <2>1. CASE break_' /\ mux' = [mux EXCEPT !.pc = "top"]
    <3>1. [mux EXCEPT !.pc = "top"] \in MuxType
      BY <1>2, MuxUpdates DEF MuxPc
    <3>2. QED
      BY <1>2, <2>1, <3>1 DEF MuxType
  <2>2. CASE ~break_' /\ mux' = [mux EXCEPT !.queue = r, !.i = @ + 1]
    <3>1. [mux EXCEPT !.queue = r, !.i = @ + 1] \in MuxType
      BY <1>2, <1>7, MuxUpdates
    <3>2. mux'.queue = r /\ mux'.i = mux.i + 1 /\ mux'.pc = mux.pc
      BY <1>2, <2>2 DEF MuxType
    <3>3. mux'.i > 1
      BY <1>2, <3>2
    <3>4. QED
      BY <1>2, <1>3, <1>7, <2>2, <3>1, <3>2, <3>3
  <2>3. QED
    BY <1>8, <2>1, <2>2
<1>10. LateInv'
  BY <1>5, <1>9 DEF LateInv, NoneLate
<1>11. QueueInv'
  BY <1>9 DEF QueueInv
<1>12. LoopKeeps
  BY <1>2, <1>3, <1>4, <1>5, <1>9 DEF LoopKeeps
<1>13. QED
  BY <1>10, <1>11, <1>12, KeepsSound

LEMMA TimersDoneSound ==
  ASSUME SocketsInv, TimersDone
  PROVE  SocketsInv'
<1>1. SocketsTypeOK /\ LateInv /\ QueueInv
  BY DEF SocketsInv
<1>2. /\ breakPipe_ \in Nat /\ mux \in MuxType /\ mux.i >= 1 /\ mux.i \in Nat
      /\ mux.queue \in Seq(Scheduled)
      /\ break_ \in BOOLEAN /\ late \in LateType
      /\ inbox \in [Socket -> Seq(0..1)] /\ sockTime \in Nat
  BY <1>1, SocketsTypes
<1>3. mux.pc = "timers"
  BY DEF TimersDone, At_
<1>4. /\ UNCHANGED <<win32, socketListeners_, timerListeners_, udp, breakPipe_, inbox, break_, late>>
      /\ UNCHANGED <<sockTime, events, breaker>>
  BY DEF TimersDone, setUp, outside
<1>5. PICK q : /\ q \in (IF mux.i > 1 THEN InOrder(mux.queue) ELSE {mux.queue})
               /\ mux' = [mux EXCEPT !.pc = "top", !.queue = q]
  BY DEF TimersDone
<1>6. q \in Seq(Scheduled) /\ Sorted(q) /\ TimersOf(q) = TimersOf(mux.queue)
  <2>1. CASE mux.i > 1
    BY <1>2, <1>5, <2>1, InOrderSound
  <2>2. CASE ~(mux.i > 1)
    <3>1. mux.i = 1 /\ q = mux.queue
      BY <1>2, <1>5, <2>2
    <3>2. QED
      BY <1>1, <1>2, <1>3, <3>1 DEF QueueInv
  <2>3. QED
    BY <2>1, <2>2
<1>7. /\ mux' \in MuxType /\ mux'.i >= 1 /\ mux'.queue = q /\ mux'.pc = "top"
  <2>1. [mux EXCEPT !.pc = "top", !.queue = q] \in MuxType
    BY <1>2, <1>6, MuxUpdates
  <2>2. QED
    BY <1>2, <1>5, <2>1 DEF MuxType
<1>8. LateInv'
  BY <1>1, <1>4, <1>7 DEF LateInv
<1>9. QueueInv'
  BY <1>6, <1>7 DEF QueueInv
<1>10. LoopKeeps
  BY <1>2, <1>3, <1>4, <1>6, <1>7 DEF LoopKeeps
<1>11. QED
  BY <1>8, <1>9, <1>10, KeepsSound

(* Another thread breaks the loop, a datagram comes, time passes.           *)
LEMMA OutsideSound ==
  ASSUME SocketsInv, \/ AsynchronousBreak \/ BreakWrite \/ Pass
                     \/ \E s \in Socket, size \in 0..1 : Arrive(s, size)
  PROVE  SocketsInv'
<1>1. SocketsTypeOK /\ LateInv /\ QueueInv /\ TimersAreKept /\ PeerIsKept
  BY DEF SocketsInv
<1>2. UNCHANGED <<win32, socketListeners_, timerListeners_, udp, mux, late>>
  BY DEF AsynchronousBreak, BreakWrite, Pass, Arrive, setUp
<1>3. break_' \in BOOLEAN /\ (~break_' => ~break_)
  <2>1. break_ \in BOOLEAN
    BY <1>1, SocketsTypes
  <2>2. break_' = TRUE \/ break_' = break_
    BY DEF AsynchronousBreak, BreakWrite, Pass, Arrive, setUp
  <2>3. QED
    BY <2>1, <2>2
<1>4. inbox' \in [Socket -> Seq(0..1)]
  <2>1. inbox \in [Socket -> Seq(0..1)]
    BY <1>1, SocketsTypes
  <2>2. ASSUME NEW s \in Socket, NEW size \in 0..1, Arrive(s, size)
        PROVE  inbox' \in [Socket -> Seq(0..1)]
    <3>1. Append(inbox[s], size) \in Seq(0..1)
      BY <2>1, AppendProperties
    <3>2. inbox' = [inbox EXCEPT ![s] = Append(inbox[s], size)]
      BY <2>2 DEF Arrive
    <3>3. QED
      BY <2>1, <3>1, <3>2
  <2>3. QED
    BY <2>1, <2>2 DEF AsynchronousBreak, BreakWrite, Pass
<1>5. /\ breakPipe_' \in Nat /\ sockTime' \in Nat /\ events' \in Nat /\ breaker' \in {"idle", "flagged"}
  BY <1>1 DEF SocketsTypeOK, AsynchronousBreak, BreakWrite, Pass, Arrive
<1>6. SocketsTypeOK'
  <2>1. /\ win32' \in BOOLEAN
        /\ socketListeners_' \in Seq(Socket) /\ timerListeners_' \in Seq(TimerCall)
        /\ late' \in LateType /\ udp' \in UdpType /\ mux' \in MuxType /\ mux'.i >= 1
    BY <1>1, <1>2 DEF SocketsTypeOK
  <2>2. QED
    BY <1>3, <1>4, <1>5, <2>1 DEF SocketsTypeOK
<1>7. LateInv' /\ QueueInv'
  BY <1>1, <1>2, <1>3 DEF LateInv, QueueInv
<1>8. TimersAreKept' /\ PeerIsKept'
  BY <1>1, <1>2 DEF TimersAreKept, PeerIsKept, At_
<1>9. QED
  BY <1>6, <1>7, <1>8 DEF SocketsInv

(* A call of the UdpSocket, which the kernel may refuse.                    *)
LEMMA UdpSound ==
  ASSUME SocketsInv, UdpStep
  PROVE  SocketsInv'
<1>1. SocketsTypeOK /\ LateInv /\ QueueInv /\ TimersAreKept /\ PeerIsKept
  BY DEF SocketsInv
<1>2. /\ UNCHANGED <<win32, socketListeners_, timerListeners_, mux, late, break_, breakPipe_, inbox>>
      /\ UNCHANGED <<sockTime, events, breaker>>
  BY DEF UdpStep, Bind, Connect, LocalEndpointFor, loopVars, setUp, outside
<1>3. udp \in UdpType
  BY <1>1 DEF SocketsTypeOK
<1>4. udp' \in UdpType /\ PeerIsKept'
  <2>1. CASE Bind
    BY <1>1, <1>3, <2>1 DEF Bind, ThrowKeeping, UdpType, PeerIsKept
  <2>2. ASSUME NEW p \in Peer, Connect(p)
        PROVE  udp' \in UdpType /\ PeerIsKept'
    BY <1>1, <1>3, <2>2 DEF Connect, UdpType, Address, PeerIsKept
  <2>3. ASSUME NEW p \in Peer, LocalEndpointFor(p)
        PROVE  udp' \in UdpType /\ PeerIsKept'
    <3>1. PICK back : back = IF udp.isConnected THEN udp.connectedAddr ELSE NoAddress
      OBVIOUS
    <3>2. back \in Address
      BY <1>3, <3>1 DEF UdpType, Address
    <3>3. \/ udp' = [udp EXCEPT !.thrown = TRUE, !.kernelPeer = udp.kernelPeer]
          \/ udp' = [udp EXCEPT !.thrown = TRUE, !.kernelPeer = p]
          \/ udp' = [udp EXCEPT !.kernelPeer = back]
      BY <2>3, <3>1 DEF LocalEndpointFor, ThrowKeeping
    <3>4. udp' \in UdpType
      BY <1>3, <3>2, <3>3 DEF UdpType, Address
    <3>5. PeerIsKept'
      BY <1>3, <3>1, <3>3 DEF UdpType, PeerIsKept
    <3>6. QED
      BY <3>4, <3>5
  <2>4. QED
    BY <2>1, <2>2, <2>3 DEF UdpStep
<1>5. SocketsTypeOK'
  BY <1>1, <1>2, <1>4 DEF SocketsTypeOK
<1>6. LateInv' /\ QueueInv' /\ TimersAreKept'
  BY <1>1, <1>2 DEF LateInv, QueueInv, TimersAreKept, At_
<1>7. QED
  BY <1>4, <1>5, <1>6 DEF SocketsInv

LEMMA SocketsStep == SocketsInv /\ [MuxNext \/ UdpStep]_socketVars => SocketsInv'
<1> SUFFICES ASSUME SocketsInv, [MuxNext \/ UdpStep]_socketVars
             PROVE  SocketsInv'
  OBVIOUS
<1>1. CASE Attach \/ Detach
  BY <1>1, AttachSound
<1>2. CASE RunBegin
  BY <1>2, RunBeginSound
<1>3. CASE LoopStep \/ Interrupted
  <2>1. CASE Wait
    BY <2>1, WaitSound
  <2>2. CASE Wake \/ Interrupted \/ PipeRead \/ SocketsDone
    BY <2>2, WakeSound
  <2>3. CASE \E breaks \in BOOLEAN : Receive(breaks)
    BY <2>3, ReceiveSound
  <2>4. CASE \E breaks \in BOOLEAN : Expire(breaks)
    BY <2>4, ExpireSound
  <2>5. CASE TimersDone
    BY <2>5, TimersDoneSound
  <2>6. QED
    BY <1>3, <2>1, <2>2, <2>3, <2>4, <2>5 DEF LoopStep
<1>4. CASE \/ AsynchronousBreak \/ BreakWrite \/ Pass
           \/ \E s \in Socket, size \in 0..1 : Arrive(s, size)
  BY <1>4, OutsideSound
<1>5. CASE UdpStep
  BY <1>5, UdpSound
<1>6. CASE UNCHANGED socketVars
  <2>1. /\ UNCHANGED <<win32, socketListeners_, timerListeners_, break_, breakPipe_, mux, inbox>>
        /\ UNCHANGED <<sockTime, events, breaker, late, udp>>
    BY <1>6 DEF socketVars, loopVars, setUp, outside
  <2>2. SocketsTypeOK'
    BY <2>1 DEF SocketsInv, SocketsTypeOK
  <2>3. LateInv' /\ QueueInv' /\ TimersAreKept' /\ PeerIsKept'
    BY <2>1 DEF SocketsInv, LateInv, QueueInv, TimersAreKept, PeerIsKept, At_
  <2>4. QED
    BY <2>2, <2>3 DEF SocketsInv
<1>7. QED
  BY <1>1, <1>2, <1>3, <1>4, <1>5, <1>6 DEF MuxNext

(* For any sockets, timers and peers, on posix and on win32, with any       *)
(* datagrams, breaks, interruptions and refusals: once the loop is told to  *)
(* end it calls one listener of a socket and one of a timer at the most, it *)
(* sleeps until the first of its timers is due and loses none of them, and  *)
(* LocalEndpointFor gives a socket back its peer.                           *)
THEOREM LoopKeepsItsWord == SocketsSpec => []SocketsKeepTheirWord
<1>1. SocketsInv => SocketsKeepTheirWord
  BY DEF SocketsInv, SocketsKeepTheirWord, BreakIsHeeded, LateInv
<1>2. QED
  BY SocketsInitially, SocketsStep, <1>1, PTL DEF SocketsSpec

-----------------------------------------------------------------------------
(* Thread and Semaphore *)

OwnerPc == {"idle", "start", "cancel", "join", "wait"}
BodyPc == {"new", "armed", "runs", "over", "gone"}
UsePc == {"idle", "lock", "take", "holds"}

ThreadTypeOK ==
  /\ thread_id_ \in Nat /\ should_run_ \in BOOLEAN /\ ready_ \in Nat /\ crashed \in BOOLEAN
  /\ owner \in [pc : OwnerPc, b : Nat]
  /\ bodies \in Seq(BodyPc)

SemaphoreTypeOK ==
  /\ acquire_mutex_ \in Caller \cup {Nobody_}
  /\ use \in [Caller -> [pc : UsePc, held : Int, uses : Nat]]

(* Of all the bodies the last that was made can be alive, and then          *)
(* thread_id_ tells of it; who waits for a body waits for that one.         *)
BodyInv ==
  ~crashed =>
    /\ \A b \in DOMAIN bodies : Alive(b) => thread_id_ = b
    /\ owner.pc = "wait" => thread_id_ \in {0, owner.b} /\ owner.b \in DOMAIN bodies
    /\ thread_id_ # 0 => thread_id_ \in DOMAIN bodies

(* The signal of readiness comes once in each start.                        *)
NoneBegins == \A b \in DOMAIN bodies : bodies[b] \notin {"new", "armed"}
ReadyInv ==
  ~crashed =>
    /\ owner.pc # "start" => ready_ = 0 /\ NoneBegins
    /\ owner.pc = "start" => ready_ = 0 \/ (ready_ = 1 /\ NoneBegins)

(* Who gathers resources holds the mutex.                                   *)
GatherInv == \A c \in Caller : Gathers(c) => acquire_mutex_ = c

ThreadInv == ThreadTypeOK /\ BodyInv /\ ReadyInv
SemaphoreInv == SemaphoreTypeOK /\ GatherInv

LEMMA ThreadsInitially == ThreadsInit => ThreadInv /\ SemaphoreInv
<1> SUFFICES ASSUME ThreadsInit
             PROVE  ThreadInv /\ SemaphoreInv
  OBVIOUS
<1>1. bodies = <<>> /\ DOMAIN bodies = {}
  BY DEF ThreadsInit
<1>2. ThreadTypeOK
  BY EmptySeq DEF ThreadsInit, ThreadTypeOK, OwnerPc
<1>3. BodyInv /\ ReadyInv
  BY <1>1 DEF ThreadsInit, BodyInv, ReadyInv, NoneBegins
<1>4. SemaphoreTypeOK
  BY DEF ThreadsInit, SemaphoreTypeOK, UsePc
<1>5. GatherInv
  BY DEF ThreadsInit, GatherInv, Gathers
<1>6. QED
  BY <1>2, <1>3, <1>4, <1>5 DEF ThreadInv, SemaphoreInv

(* What one body does leaves the others as they are.                        *)
LEMMA BodyMoves ==
  ASSUME ThreadTypeOK, NEW b \in DOMAIN bodies, NEW pc \in BodyPc, BodyTo(b, pc)
  PROVE  /\ bodies' \in Seq(BodyPc) /\ DOMAIN bodies' = DOMAIN bodies
         /\ \A d \in DOMAIN bodies : bodies'[d] = IF d = b THEN pc ELSE bodies[d]
BY DEF ThreadTypeOK, BodyTo

(* The owner's steps but for Start and Cancel leave the bodies alone.       *)
LEMMA OwnerSound ==
  ASSUME ThreadInv, Started \/ Quit \/ Kill \/ Join \/ JoinBegin \/ Joined
  PROVE  ThreadInv'
<1>1. ThreadTypeOK /\ BodyInv /\ ReadyInv /\ ~crashed
  BY DEF ThreadInv, Started, Quit, Kill, Join, JoinBegin, Joined, Free, OwnerAt
<1>2. UNCHANGED bodies
  BY DEF Started, Quit, Kill, Join, JoinBegin, Joined
<1>3. ThreadTypeOK'
  <2>1. owner' \in [pc : OwnerPc, b : Nat]
    <3>1. \A pc \in OwnerPc, b \in Nat : [pc |-> pc, b |-> b] \in [pc : OwnerPc, b : Nat]
      OBVIOUS
    <3>2. {"idle", "cancel", "join", "wait"} \subseteq OwnerPc
      BY DEF OwnerPc
    <3>3. thread_id_ \in Nat /\ owner \in [pc : OwnerPc, b : Nat]
      BY <1>1 DEF ThreadTypeOK
    <3>4. \/ owner' = owner \/ owner' = [pc |-> "wait", b |-> thread_id_]
          \/ OwnerTo("idle") \/ OwnerTo("cancel") \/ OwnerTo("join")
      BY DEF Started, Quit, Kill, Join, JoinBegin, Joined
    <3>5. QED
      BY <3>1, <3>2, <3>3, <3>4 DEF OwnerTo
  <2>2. /\ thread_id_' \in Nat /\ should_run_' \in BOOLEAN /\ ready_' \in Nat /\ crashed' \in BOOLEAN
    <3>1. thread_id_' = thread_id_ \/ thread_id_' = 0
      BY DEF Started, Quit, Kill, Join, JoinBegin, Joined
    <3>2. should_run_' = should_run_ \/ should_run_' = FALSE
      BY DEF Started, Quit, Kill, Join, JoinBegin, Joined
    <3>3. ready_' = ready_ \/ (ready_ > 0 /\ ready_' = ready_ - 1)
      BY DEF Started, Quit, Kill, Join, JoinBegin, Joined
    <3>4. crashed' = crashed \/ crashed' = (thread_id_ = 0)
      BY DEF Started, Quit, Kill, Join, JoinBegin, Joined
    <3>5. thread_id_' \in Nat
      BY <1>1, <3>1 DEF ThreadTypeOK
    <3>6. should_run_' \in BOOLEAN
      BY <1>1, <3>2 DEF ThreadTypeOK
    <3>7. ready_' \in Nat
      BY <1>1, <3>3 DEF ThreadTypeOK
    <3>8. crashed' \in BOOLEAN
      BY <1>1, <3>4 DEF ThreadTypeOK
    <3>9. QED
      BY <3>5, <3>6, <3>7, <3>8
  <2>3. QED
    BY <1>1, <1>2, <2>1, <2>2 DEF ThreadTypeOK
<1>4. CASE Started
  <2>1. ready_ = 1 /\ NoneBegins
    BY <1>1, <1>4 DEF Started, OwnerAt, ReadyInv, ThreadTypeOK
  <2>2. owner'.pc = "idle" /\ ready_' = 0 /\ UNCHANGED <<thread_id_, crashed>>
    BY <1>4, <2>1 DEF Started, OwnerTo
  <2>3. BodyInv'
    BY <1>1, <1>2, <2>2 DEF BodyInv, Alive
  <2>4. ReadyInv'
    BY <1>2, <2>1, <2>2 DEF ReadyInv, NoneBegins
  <2>5. QED
    BY <1>3, <2>3, <2>4 DEF ThreadInv
<1>5. CASE Quit \/ Kill \/ Join
  <2>1. owner.pc = "idle" /\ owner'.pc \in {"idle", "cancel", "join"}
        /\ UNCHANGED <<thread_id_, crashed, ready_>>
    BY <1>5 DEF Quit, Kill, Join, Free, OwnerAt, OwnerTo
  <2>2. BodyInv'
    BY <1>1, <1>2, <2>1 DEF BodyInv, Alive
  <2>3. ReadyInv'
    BY <1>1, <1>2, <2>1 DEF ReadyInv, NoneBegins
  <2>4. QED
    BY <1>3, <2>2, <2>3 DEF ThreadInv
<1>6. CASE JoinBegin
  <2>1. owner.pc = "join" /\ owner'.pc = "wait" /\ owner'.b = thread_id_
        /\ crashed' = (thread_id_ = 0) /\ UNCHANGED <<thread_id_, ready_>>
    BY <1>6 DEF JoinBegin, OwnerAt
  <2>2. BodyInv'
    BY <1>1, <1>2, <2>1 DEF BodyInv, Alive
  <2>3. ReadyInv'
    BY <1>1, <1>2, <2>1 DEF ReadyInv, NoneBegins
  <2>4. QED
    BY <1>3, <2>2, <2>3 DEF ThreadInv
<1>7. CASE Joined
  <2>1. owner.pc = "wait" /\ owner'.pc = "idle" /\ bodies[owner.b] = "gone"
        /\ thread_id_' = 0 /\ UNCHANGED <<crashed, ready_>>
    BY <1>7 DEF Joined, OwnerAt, OwnerTo
  <2>2. \A b \in DOMAIN bodies : ~Alive(b)
    BY <1>1, <2>1 DEF BodyInv, Alive, ThreadTypeOK
  <2>3. BodyInv'
    BY <1>2, <2>1, <2>2 DEF BodyInv, Alive
  <2>4. ReadyInv'
    BY <1>1, <1>2, <2>1 DEF ReadyInv, NoneBegins
  <2>5. QED
    BY <1>3, <2>3, <2>4 DEF ThreadInv
<1>8. QED
  BY <1>4, <1>5, <1>6, <1>7

LEMMA StartSound ==
  ASSUME ThreadInv, Start
  PROVE  ThreadInv'
<1>1. ThreadTypeOK /\ BodyInv /\ ReadyInv /\ ~crashed /\ owner.pc = "idle" /\ thread_id_ = 0
  BY DEF ThreadInv, Start, Free, OwnerAt
<1>2. PICK n : n = Len(bodies) + 1
  OBVIOUS
<1>3. /\ bodies' \in Seq(BodyPc) /\ n \in Nat \ {0}
      /\ DOMAIN bodies' = DOMAIN bodies \cup {n} /\ n \notin DOMAIN bodies
      /\ \A b \in DOMAIN bodies : bodies'[b] = bodies[b]
      /\ bodies'[n] = "new"
  <2>1. bodies \in Seq(BodyPc) /\ "new" \in BodyPc /\ bodies' = Append(bodies, "new") /\ Len(bodies) \in Nat
    BY <1>1 DEF ThreadTypeOK, BodyPc, Start
  <2>2. QED
    BY <1>2, <2>1, AppendProperties
<1>4. /\ should_run_' = TRUE /\ thread_id_' = n /\ owner' = [pc |-> "start", b |-> 0]
      /\ UNCHANGED <<ready_, crashed>>
  BY <1>2 DEF Start, OwnerTo
<1>5. ThreadTypeOK'
  BY <1>1, <1>3, <1>4 DEF ThreadTypeOK, OwnerPc
<1>6. \A b \in DOMAIN bodies : bodies[b] = "gone"
  BY <1>1, <1>3 DEF BodyInv, Alive, ThreadTypeOK
<1>7. BodyInv'
  BY <1>3, <1>4, <1>6 DEF BodyInv, Alive
<1>8. ReadyInv'
  BY <1>1, <1>4 DEF ReadyInv
<1>9. QED
  BY <1>5, <1>7, <1>8 DEF ThreadInv

LEMMA CancelSound ==
  ASSUME ThreadInv, Cancel
  PROVE  ThreadInv'
<1>1. ThreadTypeOK /\ BodyInv /\ ReadyInv /\ ~crashed /\ owner.pc = "cancel"
  BY DEF ThreadInv, Cancel, OwnerAt
<1>2. /\ bodies' \in Seq(BodyPc) /\ DOMAIN bodies' = DOMAIN bodies
      /\ \A b \in DOMAIN bodies : bodies'[b] = bodies[b] \/ bodies'[b] = "gone"
  <2>1. bodies' = [b \in DOMAIN bodies |-> IF b = thread_id_ /\ bodies[b] = "runs" THEN "gone" ELSE bodies[b]]
    BY DEF Cancel
  <2>2. bodies \in Seq(BodyPc) /\ DOMAIN bodies = 1..Len(bodies) /\ Len(bodies) \in Nat
    BY <1>1 DEF ThreadTypeOK
  <2>3. \A b \in DOMAIN bodies : bodies[b] \in BodyPc /\ "gone" \in BodyPc
    BY <2>2 DEF BodyPc
  <2>4. bodies' \in [1..Len(bodies) -> BodyPc]
    BY <2>1, <2>2, <2>3
  <2>5. QED
    BY <2>1, <2>2, <2>4
<1>3. /\ owner' = [pc |-> "join", b |-> 0] /\ crashed' \in BOOLEAN
      /\ UNCHANGED <<thread_id_, should_run_, ready_>>
  BY DEF Cancel, OwnerTo
<1>4. ThreadTypeOK'
  BY <1>1, <1>2, <1>3 DEF ThreadTypeOK, OwnerPc
<1>5. BodyInv'
  BY <1>1, <1>2, <1>3 DEF BodyInv, Alive
<1>6. ReadyInv'
  BY <1>1, <1>2, <1>3 DEF ReadyInv, NoneBegins
<1>7. QED
  BY <1>4, <1>5, <1>6 DEF ThreadInv

LEMMA BodySound ==
  ASSUME ThreadInv, ~crashed, NEW b \in DOMAIN bodies, Arm(b) \/ ThreadReady_(b) \/ End(b) \/ Forget(b)
  PROVE  ThreadInv'
<1>1. ThreadTypeOK /\ BodyInv /\ ReadyInv
  BY DEF ThreadInv
<1>2. PICK pc \in {"armed", "runs", "over", "gone"} : BodyTo(b, pc)
  BY DEF Arm, ThreadReady_, End, Forget
<1>3. /\ bodies' \in Seq(BodyPc) /\ DOMAIN bodies' = DOMAIN bodies
      /\ \A d \in DOMAIN bodies : bodies'[d] = IF d = b THEN pc ELSE bodies[d]
  BY <1>1, <1>2, BodyMoves DEF BodyPc
<1>4. UNCHANGED <<owner, crashed>>
  BY DEF Arm, ThreadReady_, End, Forget
<1>5. Alive(b) /\ thread_id_ = b /\ \A d \in DOMAIN bodies : Alive(d) => d = b
  BY <1>1 DEF BodyInv, Alive, Arm, ThreadReady_, End, Forget
<1>6. /\ thread_id_' \in {0, b} /\ should_run_' \in BOOLEAN
      /\ thread_id_' = b \/ bodies'[b] = "gone"
  BY <1>1, <1>3, <1>5 DEF ThreadTypeOK, Arm, ThreadReady_, End, Forget, BodyTo
<1>7. BodyInv'
  BY <1>1, <1>3, <1>4, <1>5, <1>6 DEF BodyInv, Alive
<1>8. ready_' \in Nat /\ ReadyInv'
  <2>1. CASE Arm(b)
    <3>1. bodies[b] = "new" /\ ready_' = ready_
      BY <2>1 DEF Arm
    <3>2. owner.pc = "start" /\ ready_ = 0
      BY <1>1, <3>1 DEF ReadyInv, NoneBegins
    <3>3. QED
      BY <1>4, <3>1, <3>2 DEF ReadyInv
  <2>2. CASE ThreadReady_(b)
    <3>1. bodies[b] = "armed" /\ ready_' = ready_ + 1 /\ bodies'[b] = "runs"
      BY <1>3, <2>2 DEF ThreadReady_, BodyTo
    <3>2. owner.pc = "start" /\ ready_ = 0
      BY <1>1, <3>1 DEF ReadyInv, NoneBegins
    <3>3. NoneBegins'
      BY <1>3, <1>5, <3>1 DEF NoneBegins, Alive
    <3>4. QED
      BY <1>4, <3>1, <3>2, <3>3 DEF ReadyInv
  <2>3. CASE End(b) \/ Forget(b)
    <3>1. ready_' = ready_ /\ bodies'[b] \in {"over", "gone"}
      BY <1>3, <2>3 DEF End, Forget, BodyTo
    <3>2. NoneBegins'
      BY <1>3, <1>5, <3>1 DEF NoneBegins, Alive
    <3>3. QED
      BY <1>1, <1>4, <3>1, <3>2 DEF ReadyInv, ThreadTypeOK
  <2>4. QED
    BY <2>1, <2>2, <2>3
<1>9. ThreadTypeOK'
  <2>1. thread_id_' \in Nat
    BY <1>1, <1>5, <1>6 DEF ThreadTypeOK
  <2>2. QED
    BY <1>1, <1>3, <1>4, <1>6, <1>8, <2>1 DEF ThreadTypeOK
<1>10. QED
  BY <1>7, <1>8, <1>9 DEF ThreadInv

LEMMA ThreadStepSound == ThreadInv /\ ThreadNext => ThreadInv'
BY OwnerSound, StartSound, CancelSound, BodySound DEF ThreadNext, ThreadStep_

LEMMA SemaphoreStepSound == SemaphoreInv /\ SemaphoreNext => SemaphoreInv'
<1> SUFFICES ASSUME SemaphoreInv, NEW c \in Caller, AcquireBegin(c) \/ SemaphoreStep(c)
             PROVE  SemaphoreInv'
  BY DEF SemaphoreNext
<1>1. SemaphoreTypeOK /\ GatherInv
  BY DEF SemaphoreInv
<1>2. PICK u : u = use'[c]
  OBVIOUS
<1>3. /\ u \in [pc : UsePc, held : Int, uses : Nat]
      /\ use' = [use EXCEPT ![c] = u]
      /\ u.pc = "take" /\ Wanted[c] > 1 => acquire_mutex_' = c
  <2>0. use[c] \in [pc : UsePc, held : Int, uses : Nat]
    BY <1>1 DEF SemaphoreTypeOK
  <2>1. CASE AcquireBegin(c)
    BY <1>1, <1>2, <2>0, <2>1 DEF AcquireBegin, SemaphoreTypeOK, UsePc
  <2>2. CASE AcquireLock(c)
    BY <1>1, <1>2, <2>0, <2>2 DEF AcquireLock, UseTo, SemaphoreTypeOK, UsePc
  <2>3. CASE Acquire(c)
    <3>1. use' = [use EXCEPT ![c].held = @ + 1] /\ use[c].pc = "take" /\ UNCHANGED acquire_mutex_
      BY <2>3 DEF Acquire
    <3>2. u = [use[c] EXCEPT !.held = @ + 1]
      BY <1>1, <1>2, <3>1 DEF SemaphoreTypeOK
    <3>3. use' = [use EXCEPT ![c] = u]
      BY <3>1, <3>2
    <3>4. u \in [pc : UsePc, held : Int, uses : Nat] /\ u.pc = "take"
      BY <2>0, <3>1, <3>2
    <3>5. Wanted[c] > 1 => acquire_mutex_' = c
      BY <1>1, <3>1 DEF GatherInv, Gathers
    <3>6. QED
      BY <3>3, <3>4, <3>5
  <2>4. CASE Acquired(c)
    BY <1>1, <1>2, <2>0, <2>4 DEF Acquired, UseTo, SemaphoreTypeOK, UsePc
  <2>5. CASE Release_(c)
    <3>1. PICK pc \in {"idle", "holds"} : use' = [use EXCEPT ![c].held = @ - 1, ![c].pc = pc]
      BY <2>5 DEF Release_
    <3>2. u = [use[c] EXCEPT !.held = @ - 1, !.pc = pc]
      BY <1>1, <1>2, <3>1 DEF SemaphoreTypeOK
    <3>3. use' = [use EXCEPT ![c] = u]
      BY <3>1, <3>2
    <3>4. u.pc = pc /\ u = [pc |-> pc, held |-> use[c].held - 1, uses |-> use[c].uses]
      BY <2>0, <3>2
    <3>5. pc \in UsePc /\ use[c].held - 1 \in Int /\ use[c].uses \in Nat
      BY <2>0 DEF UsePc
    <3>6. QED
      BY <3>3, <3>4, <3>5
  <2>6. QED
    BY <2>1, <2>2, <2>3, <2>4, <2>5 DEF SemaphoreStep
<1>4. /\ acquire_mutex_' \in Caller \cup {Nobody_}
      /\ \A d \in Caller \ {c} : acquire_mutex_ = d => acquire_mutex_' = d
  BY <1>1, ThreadsAssumption
     DEF SemaphoreStep, AcquireBegin, AcquireLock, Acquire, Acquired, Release_, SemaphoreTypeOK
<1>5. use' \in [Caller -> [pc : UsePc, held : Int, uses : Nat]]
      /\ \A d \in Caller : use'[d] = IF d = c THEN u ELSE use[d]
  BY <1>1, <1>3 DEF SemaphoreTypeOK
<1>6. SemaphoreTypeOK'
  BY <1>4, <1>5 DEF SemaphoreTypeOK
<1>7. GatherInv'
  BY <1>1, <1>3, <1>4, <1>5 DEF GatherInv, Gathers
<1>8. QED
  BY <1>6, <1>7 DEF SemaphoreInv

(* For any number of starts and any callers: unless a thread that ends of   *)
(* itself meets a kill, a Thread has one body at a time, which has said     *)
(* that it is ready when start_thread returns, and no signal is left over   *)
(* for the next start; and one caller at a time takes more than one of the  *)
(* resources of a Semaphore.                                                *)
THEOREM ThreadsStaySound == ThreadsSpec => []ThreadsAreSound
<1>1. ThreadInv /\ SemaphoreInv => ThreadsAreSound
  <2> SUFFICES ASSUME ThreadInv, SemaphoreInv
               PROVE  ThreadsAreSound
    OBVIOUS
  <2>1. OneBodyAtATime
    BY DEF ThreadInv, BodyInv, OneBodyAtATime
  <2>2. ReadyWhenStarted
    BY DEF ThreadInv, ReadyInv, NoneBegins, ReadyWhenStarted
  <2>3. GathersAlone
    BY DEF SemaphoreInv, GatherInv, GathersAlone
  <2>4. QED
    BY <2>1, <2>2, <2>3 DEF ThreadsAreSound
<1>2. ThreadInv /\ UNCHANGED threadVars => ThreadInv'
  BY DEF threadVars, ThreadInv, ThreadTypeOK, BodyInv, ReadyInv, NoneBegins, Alive
<1>3. SemaphoreInv /\ UNCHANGED semaphoreVars => SemaphoreInv'
  BY DEF semaphoreVars, SemaphoreInv, SemaphoreTypeOK, GatherInv, Gathers
<1>4. /\ ThreadInv /\ SemaphoreInv
      /\ [\/ ThreadNext /\ UNCHANGED semaphoreVars
          \/ SemaphoreNext /\ UNCHANGED threadVars]_<<threadVars, semaphoreVars>>
      => (ThreadInv /\ SemaphoreInv)'
  BY <1>2, <1>3, ThreadStepSound, SemaphoreStepSound
<1>5. QED
  BY ThreadsInitially, <1>1, <1>4, PTL DEF ThreadsSpec

-----------------------------------------------------------------------------
(* OscMapCommand *)

(* Where a thread holds the mutex of the command.                           *)
OwnHolds == {"parse", "map", "itself"}
ClientHolds == {"parse", "join", "start"}

OwnRecord ==
  [pc : {"loop", "begin", "eval", "parse", "again", "map", "itself", "gone", "ready"},
   msg : MessageKind, count : Nat]
ClientRecord ==
  [pc : {"idle", "port", "join", "start", "reply", "eval", "parse", "notify"}, arg : MapPort, count : Nat]

MapType ==
  /\ client \in [MapClient -> ClientRecord]
  /\ own \in OwnRecord
  /\ mapPort_ \in MapPort

HeldInv ==
  /\ own.pc \in OwnHolds => mapMutex = Own
  /\ \A c \in MapClient : client[c].pc \in ClientHolds => mapMutex = c

MapperInv == MapType /\ HeldInv

LEMMA MapInitially == MapInit => MapperInv
<1> SUFFICES ASSUME MapInit
             PROVE  MapperInv
  OBVIOUS
<1>1. own \in OwnRecord /\ own.pc = "loop" /\ mapPort_ \in MapPort
  BY DEF MapInit, OwnRecord, MessageKind
<1>2. [pc |-> "idle", arg |-> mapPort_, count |-> 0] \in ClientRecord
  BY <1>1 DEF ClientRecord
<1>3. client \in [MapClient -> ClientRecord] /\ \A c \in MapClient : client[c].pc = "idle"
  BY <1>2 DEF MapInit
<1>4. QED
  BY <1>1, <1>3 DEF MapperInv, MapType, HeldInv, OwnHolds, ClientHolds

LEMMA OwnToType ==
  ASSUME NEW r \in OwnRecord,
         NEW pc \in {"loop", "begin", "eval", "parse", "again", "map", "itself", "gone", "ready"}
  PROVE  [r EXCEPT !.pc = pc] \in OwnRecord /\ [r EXCEPT !.pc = pc].pc = pc
BY DEF OwnRecord

LEMMA ClientToType ==
  ASSUME NEW r \in ClientRecord,
         NEW pc \in {"idle", "port", "join", "start", "reply", "eval", "parse", "notify"}
  PROVE  [r EXCEPT !.pc = pc] \in ClientRecord /\ [r EXCEPT !.pc = pc].pc = pc
BY DEF ClientRecord

(* What a step of the own thread may do to the mutex.                       *)
LEMMA OwnSound ==
  ASSUME MapperInv, OwnStep \/ \E kind \in MessageKind : MessageComes(kind)
  PROVE  MapperInv'
<1>1. MapType /\ HeldInv
  BY DEF MapperInv
<1>2. UNCHANGED <<client, mapPort_>>
  BY DEF OwnStep, MessageComes, LoopBegins, LoopEnds, ReceiveBegin, OwnParse, OwnParsed, ReceiveAgain, MapMessage
<1>3. own' \in OwnRecord
  <2>1. ASSUME NEW pc \in {"loop", "begin", "eval", "parse", "again", "map", "itself", "gone", "ready"},
               OwnTo(pc)
        PROVE  own' \in OwnRecord
    BY <1>1, <2>1, OwnToType DEF OwnTo, MapType
  <2>2. ASSUME NEW kind \in MessageKind, MessageComes(kind)
        PROVE  own' \in OwnRecord
    BY <1>1, <2>2 DEF MessageComes, MapType, OwnRecord
  <2>3. \/ OwnTo("loop") \/ OwnTo("gone") \/ OwnTo("eval") \/ OwnTo("again") \/ OwnTo("parse")
        \/ OwnTo("map") \/ OwnTo("itself") \/ \E kind \in MessageKind : MessageComes(kind)
    BY DEF OwnStep, LoopBegins, LoopEnds, ReceiveBegin, OwnParse, OwnParsed, ReceiveAgain, MapMessage
  <2>4. QED
    BY <2>1, <2>2, <2>3
<1>4. \/ mapMutex' = mapMutex /\ (own'.pc \in OwnHolds => own.pc \in OwnHolds)
      \/ mapMutex = Unlocked /\ mapMutex' = Own
      \/ own.pc \in OwnHolds /\ mapMutex' = Unlocked /\ own'.pc \notin OwnHolds
  <2>0. own \in OwnRecord
    BY <1>1 DEF MapType
  <2>1. CASE LoopBegins \/ LoopEnds \/ ReceiveBegin \/ \E kind \in MessageKind : MessageComes(kind)
    <3>1. mapMutex' = mapMutex /\ own'.pc \in {"loop", "gone", "eval", "again", "begin"}
      <4>1. CASE \E kind \in MessageKind : MessageComes(kind)
        BY <4>1 DEF MessageComes
      <4>2. CASE LoopBegins \/ LoopEnds \/ ReceiveBegin
        <5>1. mapMutex' = mapMutex
          BY <4>2 DEF LoopBegins, LoopEnds, ReceiveBegin
        <5>2. PICK pc \in {"loop", "gone", "eval", "again"} : OwnTo(pc)
          BY <4>2 DEF LoopBegins, LoopEnds, ReceiveBegin
        <5>3. own'.pc = pc
          BY <2>0, <5>2, OwnToType DEF OwnTo
        <5>4. QED
          BY <5>1, <5>3
      <4>3. QED
        BY <2>1, <4>1, <4>2
    <3>2. QED
      BY <3>1 DEF OwnHolds
  <2>2. CASE OwnParse \/ ReceiveAgain
    BY <2>2 DEF OwnParse, ReceiveAgain, Lock
  <2>3. CASE OwnParsed
    <3>1. own.pc = "parse" /\ own'.pc = "again"
      BY <2>0, <2>3 DEF OwnParsed, OwnTo
    <3>2. mapMutex' = Unlocked
      BY <1>1, <2>3, <3>1 DEF OwnParsed, Unlock, HeldInv, OwnHolds
    <3>3. QED
      BY <3>1, <3>2 DEF OwnHolds
  <2>4. CASE MapMessage
    <3>1. own.pc = "map" /\ mapMutex = Own
      BY <1>1, <2>4 DEF MapMessage, HeldInv, OwnHolds
    <3>2. CASE own.msg = "itself"
      BY <2>4, <3>1, <3>2 DEF MapMessage, OwnHolds
    <3>3. CASE own.msg # "itself"
      <4>1. OwnTo("loop") /\ Unlock(Own)
        BY <2>4, <3>3 DEF MapMessage
      <4>2. own'.pc = "loop" /\ mapMutex' = Unlocked
        BY <2>0, <3>1, <4>1 DEF OwnTo, Unlock
      <4>3. QED
        BY <3>1, <4>2 DEF OwnHolds
    <3>4. QED
      BY <3>2, <3>3
  <2>5. QED
    BY <2>1, <2>2, <2>3, <2>4 DEF OwnStep
<1>5. HeldInv'
  <2>1. \A c \in MapClient : c # Own /\ c # Unlocked
    BY OscMapAssumption
  <2>2. Own # Unlocked
    BY DEF Own, Unlocked
  <2>3. QED
    BY <1>1, <1>2, <1>4, <2>1, <2>2 DEF HeldInv
<1>6. MapType'
  BY <1>1, <1>2, <1>3 DEF MapType
<1>7. QED
  BY <1>5, <1>6 DEF MapperInv

(* And one of another thread.                                               *)
LEMMA ClientSound ==
  ASSUME MapperInv, NEW c \in MapClient,
         \/ ClientStep(c) \/ CallNotify(c) \/ CallReplyPort(c) \/ CallScript(c)
         \/ \E p \in MapPort : CallPort(c, p)
  PROVE  MapperInv'
<1>1. MapType /\ HeldInv
  BY DEF MapperInv
<1>2. client[c] \in ClientRecord
  BY <1>1 DEF MapType
<1>3. PICK u : u = client'[c]
  OBVIOUS
<1>4. /\ u \in ClientRecord /\ client' = [client EXCEPT ![c] = u]
      /\ \/ mapMutex' = mapMutex /\ (u.pc \in ClientHolds => client[c].pc \in ClientHolds)
         \/ mapMutex = Unlocked /\ mapMutex' = c
         \/ client[c].pc \in ClientHolds /\ mapMutex' = Unlocked /\ u.pc \notin ClientHolds
  <2>1. CASE CallNotify(c) \/ CallReplyPort(c) \/ CallScript(c) \/ \E p \in MapPort : CallPort(c, p)
    <3>1. PICK pc \in {"notify", "reply", "eval", "port"}, p \in MapPort : MapCall(c, pc, p)
      <4>1. client[c].arg \in MapPort
        BY <1>2 DEF ClientRecord
      <4>2. QED
        BY <2>1, <4>1 DEF CallNotify, CallReplyPort, CallScript, CallPort
    <3>2. client' = [client EXCEPT ![c] = [pc |-> pc, arg |-> p, count |-> client[c].count + 1]]
          /\ mapMutex' = mapMutex
      BY <3>1 DEF MapCall
    <3>3. u = [pc |-> pc, arg |-> p, count |-> client[c].count + 1]
      BY <1>1, <1>3, <3>2 DEF MapType
    <3>4. QED
      BY <1>2, <3>2, <3>3 DEF ClientHolds, ClientRecord
  <2>2. ASSUME NEW pc \in {"idle", "port", "join", "start", "reply", "eval", "parse", "notify"},
               ClientTo(c, pc)
        PROVE  /\ u.pc = pc /\ u \in ClientRecord
               /\ client' = [client EXCEPT ![c] = u]
    <3>1. u = [client[c] EXCEPT !.pc = pc]
      BY <1>1, <1>3, <2>2 DEF ClientTo, MapType
    <3>2. client' = [client EXCEPT ![c] = u]
      BY <2>2, <3>1 DEF ClientTo
    <3>3. QED
      BY <1>2, <3>1, <3>2, ClientToType
  <2>3. CASE NotifyMapped(c) \/ ReplyPort(c)
    <3>1. ClientTo(c, "idle") /\ mapMutex' = mapMutex
      BY <2>3 DEF NotifyMapped, ReplyPort
    <3>2. QED
      BY <2>2, <3>1 DEF ClientHolds
  <2>4. CASE ClientParse(c) \/ KillListener(c)
    <3>1. (ClientTo(c, "parse") \/ ClientTo(c, "join")) /\ mapMutex = Unlocked /\ mapMutex' = c
      BY <2>4 DEF ClientParse, KillListener, Lock
    <3>2. QED
      BY <2>2, <3>1
  <2>5. CASE JoinListener(c)
    <3>1. ClientTo(c, "start") /\ mapMutex' = mapMutex /\ client[c].pc = "join"
      BY <2>5 DEF JoinListener
    <3>2. QED
      BY <2>2, <3>1 DEF ClientHolds
  <2>6. CASE ClientParsed(c) \/ (StartListener(c) /\ Unlock(c))
    <3>1. client[c].pc \in ClientHolds /\ Unlock(c)
      BY <2>6 DEF ClientParsed, StartListener, ClientHolds
    <3>2. mapMutex' = Unlocked
      BY <1>1, <3>1 DEF HeldInv, Unlock
    <3>3. CASE ClientTo(c, "idle")
      BY <2>2, <3>1, <3>2, <3>3 DEF ClientHolds
    <3>4. CASE client' = client /\ mapMutex' = mapMutex
      <4>1. mapMutex = Unlocked /\ mapMutex = c
        BY <1>1, <3>1, <3>2, <3>4 DEF HeldInv
      <4>2. QED
        BY <4>1, OscMapAssumption
    <3>5. QED
      BY <2>6, <3>3, <3>4 DEF ClientParsed, StartListener
  <2>7. CASE StartListener(c) /\ ~Unlock(c)
    <3>1. client' = client /\ mapMutex' = mapMutex
      BY <2>7 DEF StartListener
    <3>2. QED
      BY <1>1, <1>2, <1>3, <3>1 DEF MapType
  <2>8. QED
    BY <2>1, <2>3, <2>4, <2>5, <2>6, <2>7 DEF ClientStep
<1>5. \A d \in MapClient : client'[d] = IF d = c THEN u ELSE client[d]
  BY <1>1, <1>4 DEF MapType
<1>6. /\ own' \in OwnRecord /\ mapPort_' \in MapPort
      /\ own'.pc \in OwnHolds => own.pc \in OwnHolds
  <2>1. CASE JoinListener(c)
    BY <1>1, <1>2, <2>1 DEF JoinListener, MapType, ClientRecord
  <2>2. CASE StartListener(c)
    <3>1. own' = own \/ OwnTo("ready")
      BY <2>2 DEF StartListener
    <3>2. mapPort_' = mapPort_
      BY <2>2 DEF StartListener
    <3>3. QED
      BY <1>1, <3>1, <3>2, OwnToType DEF OwnTo, MapType, OwnHolds
  <2>3. CASE UNCHANGED <<own, mapPort_>>
    BY <1>1, <2>3 DEF MapType
  <2>4. QED
    BY <2>1, <2>2, <2>3 DEF ClientStep, NotifyMapped, ReplyPort, ClientParse, ClientParsed, KillListener,
                            CallNotify, CallReplyPort, CallScript, CallPort, MapCall
<1>7. HeldInv'
  <2>1. \A d \in MapClient : d # Own /\ d # Unlocked
    BY OscMapAssumption
  <2>2. Own # Unlocked
    BY DEF Own, Unlocked
  <2>3. ASSUME NEW d \in MapClient, client'[d].pc \in ClientHolds
        PROVE  mapMutex' = d
    BY <1>1, <1>4, <1>5, <2>1, <2>2, <2>3 DEF HeldInv
  <2>4. own'.pc \in OwnHolds => mapMutex' = Own
    BY <1>1, <1>4, <1>6, <2>1, <2>2 DEF HeldInv
  <2>5. QED
    BY <2>3, <2>4 DEF HeldInv
<1>8. MapType'
  BY <1>1, <1>4, <1>6 DEF MapType
<1>9. QED
  BY <1>7, <1>8 DEF MapperInv

(* For any other threads and any calls: the rules of the mapper are         *)
(* replaced, and read for a message, by one thread at a time.               *)
THEOREM MapperStaysAlone == OscMapSpec => []MapperIsHeldAlone
<1>1. MapperInv => MapperIsHeldAlone
  BY DEF MapperInv, HeldInv, MapperIsHeldAlone, InMapper, OwnHolds, ClientHolds
<1>2. MapperInv /\ [OscMapNext]_mapVars => MapperInv'
  <2>1. MapperInv /\ OscMapNext => MapperInv'
    BY OwnSound, ClientSound DEF OscMapNext
  <2>2. MapperInv /\ UNCHANGED mapVars => MapperInv'
    BY DEF mapVars, MapperInv, MapType, HeldInv
  <2>3. QED
    BY <2>1, <2>2
<1>3. QED
  BY MapInitially, <1>1, <1>2, PTL DEF OscMapSpec

-----------------------------------------------------------------------------
(* Registration *)

GroupState == {"null", "empty", "filled", "registering", "established"}
AvahiEvent ==
  {"client", "group"} \X
    {"running", "registering", "collision", "connecting", "established", "failure"}
Committed == {"registering", "established"}
Established == <<"group", "established">>

RegType ==
  /\ name_ \in Nat /\ entry \in Nat /\ group \in GroupState
  /\ avahiEvents \in Seq(AvahiEvent)

(* The name in a committed group is the one the callbacks speak of, and     *)
(* when the group is established that is reported, or about to be.          *)
Awaits(events_) == \E i \in DOMAIN events_ : events_[i] = Established
ReportInv ==
  ~overtaken =>
    /\ group \in Committed => name_ = entry
    /\ group = "established" => regName = entry \/ Awaits(avahiEvents)

(* Nobody of this host has the name of a committed group, and nobody else   *)
(* that of an established one.                                              *)
UniqueInv ==
  /\ group \in Committed => entry \notin OnHost
  /\ group = "established" => entry \notin OnNetwork

RegInv == RegType /\ ReportInv /\ UniqueInv

(* A host has registered finitely many names, so that one of the next is    *)
(* free.                                                                    *)
LEMMA FreshIsThere ==
  ASSUME NEW n \in Nat
  PROVE  FirstFresh(n) \in Nat /\ FirstFresh(n) \notin OnHost
<1>1. Cardinality(OnHost) \in Nat /\ IsFiniteSet(OnHost)
  BY RegistrationAssumption, FS_CardinalityType
<1>2. PICK S : S = n..(n + Cardinality(OnHost))
  OBVIOUS
<1>3. Cardinality(S) = Cardinality(OnHost) + 1 /\ S \subseteq Nat
  <2>1. PICK k \in Nat : k = Cardinality(OnHost)
    BY <1>1
  <2>2. n \in Int /\ n + k \in Int /\ ~(n > n + k) /\ (n + k) - n + 1 = k + 1
    BY <2>1
  <2>3. Cardinality(n..(n + k)) = k + 1
    BY <2>2, FS_Interval
  <2>4. n..(n + k) \subseteq Nat
    BY <2>1
  <2>5. QED
    BY <1>2, <2>1, <2>3, <2>4
<1>4. PICK T : T = {m \in S : Fresh(m)}
  OBVIOUS
<1>5. T # {}
  <2>1. ~(S \subseteq OnHost)
    <3>1. S \subseteq OnHost => Cardinality(S) <= Cardinality(OnHost)
      BY <1>1, FS_Subset
    <3>2. ~(Cardinality(S) <= Cardinality(OnHost))
      BY <1>1, <1>3
    <3>3. QED
      BY <3>1, <3>2
  <2>2. QED
    BY <1>4, <2>1 DEF Fresh
<1>6. PICK m \in T : \A y \in T : ~ (<<y, m>> \in OpToRel(<, Nat))
  <2>1. IsWellFoundedOn(OpToRel(<, Nat), Nat)
    BY NatLessThanWellFounded
  <2>2. T \subseteq Nat
    BY <1>3, <1>4
  <2>3. QED
    BY <2>1, <2>2, <1>5, WFMin
<1>7. m \in S /\ Fresh(m) /\ \A l \in n..(m - 1) : ~Fresh(l)
  <2>1. m \in S /\ Fresh(m) /\ m \in Nat
    BY <1>3, <1>4
  <2>2. ASSUME NEW l \in n..(m - 1)
        PROVE  ~Fresh(l)
    <3>1. l \in Nat /\ l < m /\ l \in S
      BY <1>1, <1>2, <2>1
    <3>2. <<l, m>> \in OpToRel(<, Nat)
      BY <2>1, <3>1 DEF OpToRel
    <3>3. QED
      BY <1>4, <1>6, <3>1, <3>2
  <2>3. QED
    BY <2>1, <2>2
<1>8. FirstFresh(n) \in S /\ Fresh(FirstFresh(n))
  BY <1>2, <1>7 DEF FirstFresh
<1>9. QED
  BY <1>3, <1>8 DEF Fresh

(* What is told is heard after the rest, and what is heard is gone.         *)
LEMMA ToldLater ==
  ASSUME NEW q \in Seq(AvahiEvent), NEW e \in AvahiEvent
  PROVE  /\ Append(q, e) \in Seq(AvahiEvent)
         /\ Awaits(q) => Awaits(Append(q, e))
         /\ e = Established => Awaits(Append(q, e))
<1>1. /\ Append(q, e) \in Seq(AvahiEvent) /\ Len(q) \in Nat /\ DOMAIN q = 1..Len(q)
      /\ DOMAIN Append(q, e) = 1..(Len(q) + 1)
      /\ \A i \in 1..Len(q) : Append(q, e)[i] = q[i]
      /\ Append(q, e)[Len(q) + 1] = e
  BY AppendProperties
<1>2. Awaits(q) => Awaits(Append(q, e))
  BY <1>1 DEF Awaits
<1>3. e = Established => Awaits(Append(q, e))
  <2>1. Len(q) + 1 \in DOMAIN Append(q, e)
    BY <1>1
  <2>2. QED
    BY <1>1, <2>1 DEF Awaits
<1>4. QED
  BY <1>1, <1>2, <1>3

LEMMA HeardIsGone ==
  ASSUME NEW q \in Seq(AvahiEvent), q # <<>>
  PROVE  /\ Tail(q) \in Seq(AvahiEvent)
         /\ Awaits(q) => Head(q) = Established \/ Awaits(Tail(q))
<1>1. /\ Tail(q) \in Seq(AvahiEvent) /\ Len(Tail(q)) = Len(q) - 1 /\ Len(q) \in Nat
      /\ \A i \in 1..Len(Tail(q)) : Tail(q)[i] = q[i + 1]
  BY HeadTailProperties
<1>2. ASSUME NEW i \in DOMAIN q, q[i] = Established
      PROVE  Head(q) = Established \/ Awaits(Tail(q))
  <2>1. CASE i = 1
    BY <1>2, <2>1
  <2>2. CASE i # 1
    <3>1. i \in 1..Len(q) /\ i - 1 \in 1..Len(Tail(q)) /\ (i - 1) + 1 = i
      BY <1>1, <2>2
    <3>2. Tail(q)[i - 1] = Established /\ i - 1 \in DOMAIN Tail(q)
      BY <1>1, <1>2, <3>1
    <3>3. QED
      BY <3>2 DEF Awaits
  <2>3. QED
    BY <2>1, <2>2
<1>3. QED
  BY <1>1, <1>2 DEF Awaits

LEMMA EventsDiffer ==
  /\ \A s \in ServerState : <<"client", s>> \in AvahiEvent /\ <<"client", s>> # Established
  /\ \A whom \in {"client", "group"} : <<whom, "failure">> \in AvahiEvent /\ <<whom, "failure">> # Established
  /\ <<"group", "collision">> \in AvahiEvent /\ <<"group", "collision">> # Established
  /\ Established \in AvahiEvent
BY DEF ServerState, AvahiEvent, Established

LEMMA RegistrationInitially == RegistrationInit => RegInv
<1> SUFFICES ASSUME RegistrationInit
             PROVE  RegInv
  OBVIOUS
<1>1. PICK e : e = <<"client", server>>
  OBVIOUS
<1>2. e \in AvahiEvent /\ avahiEvents = <<e>>
  BY <1>1, EventsDiffer DEF RegistrationInit
<1>3. avahiEvents \in Seq(AvahiEvent)
  BY <1>2
<1>4. RegType
  BY <1>3 DEF RegistrationInit, RegType, GroupState
<1>5. ReportInv /\ UniqueInv
  BY DEF RegistrationInit, ReportInv, UniqueInv, Committed
<1>6. QED
  BY <1>4, <1>5 DEF RegInv

(* The daemon tells of a change.                                            *)
LEMMA DaemonSound ==
  ASSUME RegInv,
         \/ GroupResolves \/ \E s \in ServerState : ServerChanges(s)
         \/ \E whom \in {"client", "group"} : Fails(whom)
  PROVE  RegInv'
<1>1. RegType /\ ReportInv /\ UniqueInv
  BY DEF RegInv
<1>2. PICK e \in AvahiEvent :
        /\ avahiEvents' = Append(avahiEvents, e)
        /\ \/ group' = group
           \/ group' = "empty"
           \/ group' = "established" /\ group = "registering" /\ entry \notin OnNetwork /\ e = Established
  <2>1. CASE GroupResolves
    <3>1. \/ Tell("group", "collision") /\ group' = "empty"
          \/ Tell("group", "established") /\ group' = "established" /\ group = "registering" /\ entry \notin OnNetwork
      BY <2>1 DEF GroupResolves
    <3>2. QED
      BY <3>1, EventsDiffer DEF Tell, Established
  <2>2. ASSUME NEW s \in ServerState, ServerChanges(s)
        PROVE  \E e \in AvahiEvent : avahiEvents' = Append(avahiEvents, e) /\ group' = group
    BY <2>2, EventsDiffer DEF ServerChanges, Tell
  <2>3. ASSUME NEW whom \in {"client", "group"}, Fails(whom)
        PROVE  \E e \in AvahiEvent : avahiEvents' = Append(avahiEvents, e) /\ group' = group
    BY <2>3, EventsDiffer DEF Fails, Tell
  <2>4. QED
    BY <2>1, <2>2, <2>3
<1>3. UNCHANGED <<entry, name_, regName, overtaken>>
  BY DEF GroupResolves, ServerChanges, Fails, implVars
<1>4. /\ avahiEvents' \in Seq(AvahiEvent)
      /\ Awaits(avahiEvents) => Awaits(avahiEvents')
      /\ e = Established => Awaits(avahiEvents')
  BY <1>1, <1>2, ToldLater DEF RegType
<1>5. RegType'
  BY <1>1, <1>2, <1>3, <1>4 DEF RegType, GroupState
<1>6. ReportInv'
  BY <1>1, <1>2, <1>3, <1>4 DEF ReportInv, Committed
<1>7. UniqueInv'
  BY <1>1, <1>2, <1>3 DEF UniqueInv, Committed
<1>8. QED
  BY <1>5, <1>6, <1>7 DEF RegInv

(* create_services fills an empty group with a name that is free on this    *)
(* host, which it speaks of from then on.                                   *)
LEMMA CreateSound ==
  ASSUME RegType, NEW n \in Nat, CreateServices(n)
  PROVE  \/ group \notin {"null", "empty"} /\ name_' = n /\ UNCHANGED <<group, entry>>
         \/ /\ name_' \in Nat /\ entry' \in Nat /\ group' \in GroupState
            /\ group' \in Committed => group' = "registering" /\ name_' = entry' /\ entry' \notin OnHost
<1>1. PICK m : m = FirstFresh(n)
  OBVIOUS
<1>2. m \in Nat /\ m \notin OnHost
  BY <1>1, FreshIsThere
<1>3. entry \in Nat /\ group \in GroupState
  BY DEF RegType
<1>4. \/ group \notin {"null", "empty"} /\ name_' = n /\ UNCHANGED <<group, entry>>
      \/ group' = "registering" /\ entry' = m /\ name_' = m
      \/ group \in {"null", "empty"} /\ group' = group /\ name_' = n /\ UNCHANGED entry
      \/ group' = "empty" /\ name_' = m /\ UNCHANGED entry
      \/ group' = "filled" /\ name_' = m /\ entry' = m
  BY <1>1 DEF CreateServices
<1>5. QED
  BY <1>2, <1>3, <1>4 DEF GroupState, Committed

(* A callback.                                                              *)
LEMMA CallbackSound ==
  ASSUME RegInv, Callback
  PROVE  RegInv'
<1>1. RegType /\ ReportInv /\ UniqueInv
  BY DEF RegInv
<1>2. name_ \in Nat /\ name_ + 1 \in Nat /\ entry \in Nat /\ group \in GroupState
      /\ avahiEvents \in Seq(AvahiEvent)
  BY <1>1 DEF RegType
<1>3. avahiEvents # <<>> /\ avahiEvents' = Tail(avahiEvents)
  BY DEF Callback, ServerRunning, ServerNotReady, ServerConnecting, GroupEstablished, GroupCollision,
         Failure_, Next_
<1>4. /\ avahiEvents' \in Seq(AvahiEvent)
      /\ Awaits(avahiEvents) => Head(avahiEvents) = Established \/ Awaits(avahiEvents')
  BY <1>2, <1>3, HeardIsGone
<1>5. CASE GroupEstablished
  <2>1. regName' = name_ /\ UNCHANGED <<group, entry, name_, overtaken>>
    BY <1>5 DEF GroupEstablished
  <2>2. RegType'
    BY <1>2, <1>4, <2>1 DEF RegType
  <2>3. ReportInv'
    BY <1>1, <2>1 DEF ReportInv, Committed
  <2>4. UniqueInv'
    BY <1>1, <2>1 DEF UniqueInv
  <2>5. QED
    BY <2>2, <2>3, <2>4 DEF RegInv
<1>6. CASE ServerRunning \/ ServerNotReady \/ ServerConnecting \/ GroupCollision \/ Failure_
  <2>1. Awaits(avahiEvents) => Awaits(avahiEvents')
    <3>1. Head(avahiEvents) # Established
      <4>1. CASE ServerRunning \/ ServerNotReady \/ ServerConnecting
        <5>1. PICK s \in ServerState : Head(avahiEvents) = <<"client", s>>
          BY <4>1 DEF ServerRunning, ServerNotReady, ServerConnecting, Next_, ServerState
        <5>2. QED
          BY <5>1, EventsDiffer
      <4>2. CASE GroupCollision \/ Failure_
        BY <4>2, EventsDiffer DEF GroupCollision, Failure_, Next_
      <4>3. QED
        BY <1>6, <4>1, <4>2
    <3>2. QED
      BY <1>4, <3>1
  <2>2. \/ /\ UNCHANGED <<entry, name_, regName, overtaken>>
           /\ group' \in {group, "empty"}
        \/ /\ UNCHANGED <<regName, overtaken>> /\ CreateServices(name_)
        \/ /\ UNCHANGED regName /\ CreateServices(name_ + 1)
           /\ overtaken' = (overtaken \/ group # "empty")
    BY <1>6 DEF ServerRunning, ServerNotReady, ServerConnecting, GroupCollision, Failure_, implVars
  <2>3. CASE UNCHANGED <<entry, name_, regName, overtaken>> /\ group' \in {group, "empty"}
    <3>1. RegType'
      BY <1>2, <1>4, <2>3 DEF RegType, GroupState
    <3>2. ReportInv'
      BY <1>1, <2>1, <2>3 DEF ReportInv, Committed
    <3>3. UniqueInv'
      BY <1>1, <2>3 DEF UniqueInv, Committed
    <3>4. QED
      BY <3>1, <3>2, <3>3 DEF RegInv
  <2>4. CASE UNCHANGED <<regName, overtaken>> /\ CreateServices(name_)
    <3>1. \/ name_' = name_ /\ UNCHANGED <<group, entry>>
          \/ /\ name_' \in Nat /\ entry' \in Nat /\ group' \in GroupState
             /\ group' \in Committed => group' = "registering" /\ name_' = entry' /\ entry' \notin OnHost
      BY <1>1, <1>2, <2>4, CreateSound
    <3>2. RegType'
      BY <1>2, <1>4, <3>1 DEF RegType
    <3>3. ReportInv'
      BY <1>1, <2>1, <2>4, <3>1 DEF ReportInv, Committed
    <3>4. UniqueInv'
      BY <1>1, <3>1 DEF UniqueInv, Committed
    <3>5. QED
      BY <3>2, <3>3, <3>4 DEF RegInv
  <2>5. CASE /\ UNCHANGED regName /\ CreateServices(name_ + 1)
             /\ overtaken' = (overtaken \/ group # "empty")
    <3>1. \/ group # "empty" /\ name_' = name_ + 1 /\ UNCHANGED <<group, entry>>
          \/ /\ name_' \in Nat /\ entry' \in Nat /\ group' \in GroupState
             /\ group' \in Committed => group' = "registering" /\ name_' = entry' /\ entry' \notin OnHost
      BY <1>1, <1>2, <2>5, CreateSound
    <3>2. RegType'
      BY <1>2, <1>4, <3>1 DEF RegType
    <3>3. ReportInv'
      BY <1>1, <2>1, <2>5, <3>1 DEF ReportInv, Committed
    <3>4. UniqueInv'
      BY <1>1, <3>1 DEF UniqueInv, Committed
    <3>5. QED
      BY <3>2, <3>3, <3>4 DEF RegInv
  <2>6. QED
    BY <2>2, <2>3, <2>4, <2>5
<1>7. QED
  BY <1>5, <1>6 DEF Callback

(* For any names that others have, as long as one host has finitely many,   *)
(* any changes of the daemon and any refusals: when there is nothing left   *)
(* to hear, the name reported is the one published, and nobody else has it. *)
THEOREM NameStaysOurs == RegistrationSpec => []NameIsOurs
<1>1. RegInv => NameIsOurs
  <2> SUFFICES ASSUME RegInv
               PROVE  NameIsOurs
    OBVIOUS
  <2>1. ~Awaits(<<>>)
    BY DEF Awaits
  <2>2. QED
    BY <2>1 DEF RegInv, ReportInv, UniqueInv, Committed, NameIsOurs, NameIsPublished, NameIsUnique, Settled
<1>2. RegInv /\ [RegistrationNext]_regVars => RegInv'
  <2> SUFFICES ASSUME RegInv, [RegistrationNext]_regVars
               PROVE  RegInv'
    OBVIOUS
  <2>1. CASE StopRegistration \/ UNCHANGED regVars
    <3>1. UNCHANGED <<group, entry, avahiEvents, name_, regName, overtaken>>
      BY <2>1 DEF StopRegistration, regVars, implVars
    <3>2. QED
      BY <3>1 DEF RegInv, RegType, ReportInv, UniqueInv
  <2>2. QED
    BY <2>1, DaemonSound, CallbackSound DEF RegistrationNext
<1>3. QED
  BY RegistrationInitially, <1>1, <1>2, PTL DEF RegistrationSpec

-----------------------------------------------------------------------------
(* Files *)

FileText == ScriptText \cup {""}
ScriptRecord ==
  [script : FileText, file : Path \cup {""}, mod_time : Nat, reload_every : Nat, next_reload : Nat,
   current_time : Nat, ok : BOOLEAN, compiled : FileText]

FilesTypeOK ==
  /\ second \in Nat \ {0}
  /\ fs \in [Path -> [text : FileText, mtime : Nat]]
  /\ script \in ScriptRecord
  /\ synced \in [at : Nat, whole : BOOLEAN]

(* No file is from the future; the script was loaded or saved when, or      *)
(* after, the file it came from was written.                                *)
TimesInv ==
  /\ \A p \in Path : fs[p].mtime <= second /\ (fs[p] # Absent => fs[p].mtime > 0)
  /\ synced.at <= second /\ script.mod_time <= synced.at

ScriptInv == FilesTypeOK /\ TimesInv /\ ScriptIsJudged /\ MissedInItsSecond

(* What evaluating a script, and loading it from its file, leave in it.     *)
LEMMA EvaluatedScript ==
  ASSUME NEW s \in ScriptRecord
  PROVE  /\ Evaluated(s) \in ScriptRecord
         /\ Evaluated(s).file = s.file /\ Evaluated(s).mod_time = s.mod_time
         /\ Evaluated(s).script = s.script /\ Evaluated(s).compiled = s.script
         /\ Evaluated(s).ok = (s.script \in Compiles)
<1>1. PICK good \in BOOLEAN : good = (s.script \in Compiles)
  <2>1. (s.script \in Compiles) \in BOOLEAN
    OBVIOUS
  <2>2. QED
    BY <2>1, Zenon
<1>2. Evaluated(s) = [s EXCEPT !.compiled = s.script, !.ok = good]
  BY <1>1 DEF Evaluated
<1>3. PICK r : r = [s EXCEPT !.compiled = s.script, !.ok = good]
  OBVIOUS
<1>4. r \in ScriptRecord
  BY <1>3 DEF ScriptRecord
<1>5. r.file = s.file /\ r.mod_time = s.mod_time /\ r.script = s.script /\ r.compiled = s.script
  BY <1>3 DEF ScriptRecord
<1>6. r.ok = good
  BY <1>3 DEF ScriptRecord
<1>7. QED
  BY <1>1, <1>2, <1>3, <1>4, <1>5, <1>6

LEMMA NextReloadType == ASSUME NEW s \in ScriptRecord PROVE NextReload(s) \in Nat
<1>1. s.current_time \in Nat /\ s.reload_every \in Nat
  BY DEF ScriptRecord
<1>2. NextReload(s) = 0 \/ NextReload(s) = s.current_time + s.reload_every
  BY DEF NextReload
<1>3. QED
  BY <1>1, <1>2

Present(p) == p \in Path /\ fs[p] # Absent

LEMMA LoadedScript ==
  ASSUME FilesTypeOK, NEW s \in ScriptRecord, NEW isNew \in BOOLEAN, NEW opens \in BOOLEAN
  PROVE  /\ Loaded(s, isNew, opens) \in ScriptRecord /\ Loaded(s, isNew, opens).file = s.file
         /\ ~Present(s.file) => ~Loaded(s, isNew, opens).ok /\ Loaded(s, isNew, opens).mod_time = 0
         /\ Present(s.file) /\ (isNew \/ fs[s.file].mtime # s.mod_time) =>
              /\ Loaded(s, isNew, opens).mod_time = fs[s.file].mtime
              /\ Loaded(s, isNew, opens).script = TextRead(s.file, opens)
              /\ Loaded(s, isNew, opens).compiled = TextRead(s.file, opens)
              /\ Loaded(s, isNew, opens).ok = (TextRead(s.file, opens) \in Compiles)
         /\ Present(s.file) /\ ~(isNew \/ fs[s.file].mtime # s.mod_time) => Loaded(s, isNew, opens) = s
<1>1. CASE ~Present(s.file)
  <2>1. PICK n \in Nat : n = NextReload(s)
    BY NextReloadType
  <2>2. Loaded(s, isNew, opens) = [s EXCEPT !.ok = FALSE, !.mod_time = 0, !.next_reload = n]
    BY <1>1, <2>1 DEF Loaded, Present
  <2>3. PICK r : r = [s EXCEPT !.ok = FALSE, !.mod_time = 0, !.next_reload = n]
    OBVIOUS
  <2>4. r \in ScriptRecord
    BY <2>3 DEF ScriptRecord
  <2>5. r.file = s.file /\ ~r.ok /\ r.mod_time = 0
    BY <2>3 DEF ScriptRecord
  <2>6. QED
    BY <1>1, <2>2, <2>3, <2>4, <2>5
<1>2. CASE Present(s.file) /\ ~(isNew \/ fs[s.file].mtime # s.mod_time)
  <2>1. Loaded(s, isNew, opens) = s
    BY <1>2 DEF Loaded, Present
  <2>2. QED
    BY <1>2, <2>1
<1>3. CASE Present(s.file) /\ (isNew \/ fs[s.file].mtime # s.mod_time)
  <2>1. fs[s.file].mtime \in Nat /\ TextRead(s.file, opens) \in FileText
    BY <1>3 DEF Present, FilesTypeOK, TextRead, FileText
  <2>2. PICK f : f = [s EXCEPT !.mod_time = fs[s.file].mtime, !.script = TextRead(s.file, opens)]
    OBVIOUS
  <2>3. /\ f \in ScriptRecord /\ f.file = s.file
        /\ f.mod_time = fs[s.file].mtime /\ f.script = TextRead(s.file, opens)
    BY <2>1, <2>2 DEF ScriptRecord
  <2>4. PICK e \in ScriptRecord : e = Evaluated(f)
    BY <2>3, EvaluatedScript
  <2>5. /\ e.file = f.file /\ e.mod_time = f.mod_time /\ e.script = f.script
        /\ e.compiled = f.script /\ e.ok = (f.script \in Compiles)
    BY <2>3, <2>4, EvaluatedScript
  <2>6. PICK n \in Nat : n = NextReload(e)
    BY NextReloadType
  <2>7. PICK r : r = [e EXCEPT !.next_reload = n]
    OBVIOUS
  <2>8. /\ r \in ScriptRecord /\ r.file = e.file /\ r.mod_time = e.mod_time
        /\ r.script = e.script /\ r.compiled = e.compiled /\ r.ok = e.ok
    BY <2>7 DEF ScriptRecord
  <2>9. Loaded(s, isNew, opens) = r \/ Loaded(s, isNew, opens) = e
    BY <1>3, <2>2, <2>4, <2>6, <2>7 DEF Loaded, Present
  <2>10. QED
    BY <1>3, <2>3, <2>5, <2>8, <2>9
<1>4. QED
  BY <1>1, <1>2, <1>3

LEMMA FilesInitially == FilesInit => ScriptInv
<1> SUFFICES ASSUME FilesInit
             PROVE  ScriptInv
  OBVIOUS
<1>1. Absent \in [text : FileText, mtime : Nat]
  BY DEF Absent, FileText
<1>2. fs \in [Path -> [text : FileText, mtime : Nat]] /\ \A p \in Path : fs[p] = Absent
  BY <1>1 DEF FilesInit
<1>3. script \in ScriptRecord /\ script.mod_time = 0 /\ ~script.ok /\ script.file = ""
  BY DEF FilesInit, ScriptRecord, FileText
<1>4. synced \in [at : Nat, whole : BOOLEAN] /\ synced.at = 0 /\ second = 1
  BY DEF FilesInit
<1>5. FilesTypeOK
  <2>1. second \in Nat \ {0}
    BY <1>4
  <2>2. QED
    BY <1>2, <1>3, <1>4, <2>1 DEF FilesTypeOK
<1>6. TimesInv
  <2>1. Absent.mtime = 0
    BY DEF Absent
  <2>2. \A p \in Path : fs[p].mtime = 0 /\ fs[p] = Absent
    BY <1>2, <2>1
  <2>3. \A p \in Path : fs[p].mtime <= second /\ (fs[p] # Absent => fs[p].mtime > 0)
    BY <1>4, <2>2
  <2>4. synced.at <= second /\ script.mod_time <= synced.at
    <3>1. synced.at = 0 /\ second = 1
      BY <1>4
    <3>2. script.mod_time = 0
      BY <1>3
    <3>3. QED
      BY <3>1, <3>2
  <2>5. QED
    BY <2>3, <2>4 DEF TimesInv
<1>7. ScriptIsJudged /\ MissedInItsSecond
  BY <1>3 DEF ScriptIsJudged, MissedInItsSecond
<1>8. QED
  BY <1>5, <1>6, <1>7 DEF ScriptInv

(* What the parts of the invariant say of the present file.                 *)
LEMMA ScriptFacts ==
  ASSUME ScriptInv
  PROVE  /\ second \in Nat /\ second > 0
         /\ fs \in [Path -> [text : FileText, mtime : Nat]]
         /\ script \in ScriptRecord /\ script.mod_time \in Nat /\ script.file \in Path \cup {""}
         /\ synced \in [at : Nat, whole : BOOLEAN] /\ synced.at \in Nat
         /\ \A p \in Path : fs[p].mtime \in Nat /\ fs[p].mtime <= second /\ (fs[p] # Absent => fs[p].mtime > 0)
         /\ synced.at <= second /\ script.mod_time <= synced.at
<1>1. FilesTypeOK /\ TimesInv
  BY DEF ScriptInv
<1>2. second \in Nat /\ second > 0
  BY <1>1 DEF FilesTypeOK
<1>3. fs \in [Path -> [text : FileText, mtime : Nat]] /\ script \in ScriptRecord
      /\ synced \in [at : Nat, whole : BOOLEAN]
  BY <1>1 DEF FilesTypeOK
<1>4. script.mod_time \in Nat /\ script.file \in Path \cup {""}
  BY <1>3 DEF ScriptRecord
<1>5. synced.at \in Nat /\ \A p \in Path : fs[p].mtime \in Nat
  BY <1>3
<1>6. QED
  BY <1>1, <1>2, <1>3, <1>4, <1>5 DEF TimesInv

(* The numbers among them.                                                  *)
LEMMA TimeFacts ==
  ASSUME ScriptInv
  PROVE  /\ second \in Nat /\ second > 0
         /\ script.mod_time \in Nat /\ synced.at \in Nat
         /\ synced.at <= second /\ script.mod_time <= synced.at
         /\ \A p \in Path : fs[p].mtime \in Nat /\ fs[p].mtime <= second /\ (fs[p] # Absent => fs[p].mtime > 0)
BY ScriptFacts

LEMMA Counted == \A n \in Nat : n <= n /\ 0 <= n
OBVIOUS

(* A script that was just loaded, or the one before.                        *)
LEMMA LoadSound ==
  ASSUME ScriptInv, NEW s \in ScriptRecord, NEW isNew \in BOOLEAN, NEW opens \in BOOLEAN,
         s.file \in Path \cup {""},
         s.mod_time = script.mod_time, s.script = script.script,
         s.ok = script.ok, s.compiled = script.compiled,
         isNew \/ s.file = script.file,
         script' = Loaded(s, isNew, opens),
         synced' = IF WasLoaded(isNew) THEN [at |-> second, whole |-> opens] ELSE synced,
         UNCHANGED <<second, fs>>
  PROVE  ScriptInv'
<1>1. FilesTypeOK /\ TimesInv /\ ScriptIsJudged /\ MissedInItsSecond
  BY DEF ScriptInv
<1>2. PICK r \in ScriptRecord : r = Loaded(s, isNew, opens)
  BY <1>1, LoadedScript
<1>3. script' = r /\ r.file = s.file
  BY <1>1, <1>2, LoadedScript
<1>4. WasLoaded(isNew) <=> Present(s.file) /\ (isNew \/ fs[s.file].mtime # s.mod_time)
  BY <1>3 DEF WasLoaded, Present
<1>5. synced' \in [at : Nat, whole : BOOLEAN] /\ synced'.at \in {second, synced.at}
  <2>1. [at |-> second, whole |-> opens] \in [at : Nat, whole : BOOLEAN]
    BY ScriptFacts
  <2>2. CASE WasLoaded(isNew)
    BY <2>1, <2>2
  <2>3. CASE ~WasLoaded(isNew)
    BY <2>3, ScriptFacts
  <2>4. QED
    BY <2>2, <2>3
<1>6. FilesTypeOK'
  BY <1>1, <1>3, <1>5 DEF FilesTypeOK
<1>7. CASE ~Present(s.file)
  <2>1. ~r.ok /\ r.mod_time = 0 /\ synced' = synced
    BY <1>1, <1>2, <1>4, <1>7, LoadedScript
  <2>2. TimesInv'
    <3>1. script'.mod_time = 0 /\ synced'.at \in Nat
      BY <1>3, <2>1, TimeFacts
    <3>2. script'.mod_time <= synced'.at
      BY <3>1, Counted, Zenon
    <3>3. QED
      BY <1>1, <2>1, <3>2 DEF TimesInv
  <2>3. ScriptIsJudged'
    BY <1>3, <2>1 DEF ScriptIsJudged
  <2>4. MissedInItsSecond'
    BY <1>3, <1>7 DEF MissedInItsSecond, Present
  <2>5. QED
    BY <1>6, <2>2, <2>3, <2>4 DEF ScriptInv
<1>8. CASE Present(s.file) /\ (isNew \/ fs[s.file].mtime # s.mod_time)
  <2>1. /\ r.mod_time = fs[s.file].mtime /\ r.script = TextRead(s.file, opens)
        /\ r.compiled = TextRead(s.file, opens) /\ r.ok = (TextRead(s.file, opens) \in Compiles)
    BY <1>1, <1>2, <1>8, LoadedScript
  <2>2. synced'.at = second
    BY <1>4, <1>8
  <2>3. TimesInv'
    <3>1. script'.mod_time <= second
      BY <1>3, <1>8, <2>1, TimeFacts DEF Present
    <3>2. second <= second
      <4>1. second \in Nat
        BY TimeFacts
      <4>2. QED
        BY <4>1, Counted, Zenon
    <3>3. QED
      BY <1>1, <2>2, <3>1, <3>2 DEF TimesInv
  <2>4. ScriptIsJudged'
    BY <1>3, <2>1 DEF ScriptIsJudged
  <2>5. MissedInItsSecond'
    <3>1. CASE opens
      BY <1>3, <2>1, <3>1, Zenon DEF MissedInItsSecond, TextRead
    <3>2. CASE ~opens
      <4>1. ~synced'.whole
        BY <1>4, <1>8, <3>2
      <4>2. QED
        BY <4>1, Zenon DEF MissedInItsSecond
    <3>3. QED
      BY <3>1, <3>2
  <2>6. QED
    BY <1>6, <2>3, <2>4, <2>5 DEF ScriptInv
<1>9. CASE Present(s.file) /\ ~(isNew \/ fs[s.file].mtime # s.mod_time)
  <2>1. r = s /\ synced' = synced
    BY <1>1, <1>2, <1>4, <1>9, LoadedScript
  <2>2. TimesInv'
    BY <1>1, <1>3, <2>1 DEF TimesInv
  <2>3. ScriptIsJudged'
    BY <1>1, <1>3, <2>1 DEF ScriptIsJudged
  <2>4. MissedInItsSecond'
    BY <1>1, <1>3, <1>9, <2>1 DEF MissedInItsSecond
  <2>5. QED
    BY <1>6, <2>2, <2>3, <2>4 DEF ScriptInv
<1>10. QED
  BY <1>7, <1>8, <1>9

(* Only the times of the script change.                                     *)
LEMMA PlanSound ==
  ASSUME ScriptInv, script' \in ScriptRecord,
         script'.script = script.script, script'.file = script.file,
         script'.mod_time = script.mod_time, script'.ok = script.ok,
         script'.compiled = script.compiled,
         UNCHANGED <<fs, synced>>, second' \in Nat, second <= second'
  PROVE  ScriptInv'
<1>1. FilesTypeOK /\ TimesInv /\ ScriptIsJudged /\ MissedInItsSecond
  BY DEF ScriptInv
<1>2. FilesTypeOK'
  <2>0. second \in Nat /\ second > 0
    BY TimeFacts
  <2>1. second' \in Nat \ {0}
    BY <2>0
  <2>2. QED
    BY <1>1, <2>1 DEF FilesTypeOK
<1>3. TimesInv'
  <2>0. second \in Nat /\ second > 0
    BY TimeFacts
  <2>1. \A p \in Path : fs'[p].mtime <= second' /\ (fs'[p] # Absent => fs'[p].mtime > 0)
    <3>1. \A n \in Nat : n <= second => n <= second'
      BY <2>0
    <3>2. QED
      BY <3>1, TimeFacts
  <2>2. synced'.at <= second'
    <3>1. synced.at \in Nat /\ synced.at <= second /\ synced' = synced
      BY TimeFacts
    <3>2. PICK n \in Nat : n = synced.at /\ n = synced'.at
      BY <3>1
    <3>3. n <= second'
      BY <2>0, <3>1, <3>2
    <3>4. QED
      BY <3>2, <3>3
  <2>3. QED
    BY <1>1, <2>1, <2>2 DEF TimesInv
<1>4. ScriptIsJudged' /\ MissedInItsSecond'
  BY <1>1 DEF ScriptIsJudged, MissedInItsSecond
<1>5. QED
  BY <1>2, <1>3, <1>4 DEF ScriptInv

(* A file that was just written, or removed, is as young as the clock.      *)
Dated(files) ==
  /\ files \in [Path -> [text : FileText, mtime : Nat]]
  /\ \A p \in Path : files[p].mtime <= second /\ (files[p] # Absent => files[p].mtime > 0)

LEMMA FilesAreDated == ScriptInv => Dated(fs)
BY DEF ScriptInv, FilesTypeOK, TimesInv, Dated

Saved(p, text) == [fs EXCEPT ![p] = [text |-> text, mtime |-> second]]

LEMMA WrittenFile ==
  ASSUME ScriptInv, NEW p \in Path, NEW text \in FileText, NEW files, files = Saved(p, text)
  PROVE  /\ Dated(files) /\ files[p].text = text /\ files[p].mtime = second
         /\ \A q \in Path \ {p} : files[q] = fs[q]
<1>1. second \in Nat /\ second > 0 /\ second <= second
  BY TimeFacts, Counted
<1>2. fs \in [Path -> [text : FileText, mtime : Nat]]
  BY ScriptFacts
<1>3. PICK f \in [text : FileText, mtime : Nat] : f = [text |-> text, mtime |-> second]
  BY <1>1
<1>4. f.text = text /\ f.mtime = second
  BY <1>3
<1>5. /\ files \in [Path -> [text : FileText, mtime : Nat]] /\ files[p] = f
      /\ \A q \in Path \ {p} : files[q] = fs[q]
  BY <1>2, <1>3 DEF Saved
<1>6. \A q \in Path : files[q].mtime <= second /\ (files[q] # Absent => files[q].mtime > 0)
  <2> SUFFICES ASSUME NEW q \in Path
               PROVE  files[q].mtime <= second /\ (files[q] # Absent => files[q].mtime > 0)
    OBVIOUS
  <2>1. CASE q = p
    BY <1>1, <1>4, <1>5, <2>1, Zenon
  <2>2. CASE q # p
    BY <1>5, <2>2, TimeFacts, Zenon
  <2>3. QED
    BY <2>1, <2>2
<1>7. QED
  BY <1>4, <1>5, <1>6 DEF Dated

LEMMA RemovedFile ==
  ASSUME ScriptInv, NEW p \in Path, NEW files, files = [fs EXCEPT ![p] = Absent]
  PROVE  /\ Dated(files) /\ files[p] = Absent
         /\ \A q \in Path \ {p} : files[q] = fs[q]
<1>1. PICK f \in [text : FileText, mtime : Nat] : f = Absent
  BY DEF Absent, FileText
<1>2. f.mtime = 0
  BY <1>1 DEF Absent
<1>3. /\ files \in [Path -> [text : FileText, mtime : Nat]] /\ files[p] = f
      /\ \A q \in Path \ {p} : files[q] = fs[q]
  BY <1>1, ScriptFacts
<1>4. second \in Nat /\ 0 <= second
  BY TimeFacts, Counted
<1>5. \A q \in Path : files[q].mtime <= second /\ (files[q] # Absent => files[q].mtime > 0)
  <2> SUFFICES ASSUME NEW q \in Path
               PROVE  files[q].mtime <= second /\ (files[q] # Absent => files[q].mtime > 0)
    OBVIOUS
  <2>1. CASE q = p
    BY <1>1, <1>2, <1>3, <1>4, <2>1, Zenon
  <2>2. CASE q # p
    BY <1>3, <2>2, TimeFacts, Zenon
  <2>3. QED
    BY <2>1, <2>2
<1>6. QED
  BY <1>1, <1>3, <1>5 DEF Dated

(* Somebody else writes the file, or removes it.                            *)
LEMMA EditSound ==
  ASSUME ScriptInv, NEW p \in Path, NEW text \in ScriptText, Edit(p, text)
  PROVE  ScriptInv'
<1>1. FilesTypeOK /\ TimesInv /\ ScriptIsJudged /\ MissedInItsSecond
  BY DEF ScriptInv
<1>2. UNCHANGED <<second, script, synced>>
  BY DEF Edit
<1>3. PICK files : files = fs' /\ files = Saved(p, text)
  BY DEF Edit, Saved
<1>4. /\ Dated(files) /\ files[p].text = text /\ files[p].mtime = second
      /\ \A q \in Path \ {p} : files[q] = fs[q]
  <2>1. text \in FileText
    BY DEF FileText
  <2>2. QED
    BY <1>3, <2>1, WrittenFile
<1>5. FilesTypeOK'
  BY <1>1, <1>2, <1>3, <1>4 DEF FilesTypeOK, Dated
<1>6. TimesInv'
  BY <1>1, <1>2, <1>3, <1>4, Zenon DEF TimesInv, Dated
<1>7. MissedInItsSecond'
  <2>1. CASE script.file = p
    <3>1. second = script.mod_time => synced.at = script.mod_time
      BY TimeFacts
    <3>2. QED
      BY <1>2, <1>3, <1>4, <2>1, <3>1, Zenon DEF MissedInItsSecond
  <2>2. CASE script.file # p
    <3>1. script.file # "" => script.file \in Path \ {p}
      BY <2>2, ScriptFacts
    <3>2. QED
      BY <1>1, <1>2, <1>3, <1>4, <3>1, Zenon DEF MissedInItsSecond
  <2>3. QED
    BY <2>1, <2>2
<1>8. ScriptIsJudged'
  BY <1>1, <1>2 DEF ScriptIsJudged
<1>9. QED
  BY <1>5, <1>6, <1>7, <1>8 DEF ScriptInv

LEMMA UnlinkSound ==
  ASSUME ScriptInv, NEW p \in Path, Unlink(p)
  PROVE  ScriptInv'
<1>1. FilesTypeOK /\ TimesInv /\ ScriptIsJudged /\ MissedInItsSecond
  BY DEF ScriptInv
<1>2. UNCHANGED <<second, script, synced>>
  BY DEF Unlink
<1>3. PICK files : files = fs' /\ files = [fs EXCEPT ![p] = Absent]
  BY DEF Unlink
<1>4. Dated(files) /\ files[p] = Absent /\ \A q \in Path \ {p} : files[q] = fs[q]
  BY <1>3, RemovedFile
<1>5. FilesTypeOK'
  BY <1>1, <1>2, <1>3, <1>4 DEF FilesTypeOK, Dated
<1>6. TimesInv'
  BY <1>1, <1>2, <1>3, <1>4, Zenon DEF TimesInv, Dated
<1>7. MissedInItsSecond'
  <2>1. CASE script.file = p
    BY <1>2, <1>3, <1>4, <2>1, Zenon DEF MissedInItsSecond
  <2>2. CASE script.file # p
    <3>1. script.file # "" => script.file \in Path \ {p}
      BY <2>2, ScriptFacts
    <3>2. QED
      BY <1>1, <1>2, <1>3, <1>4, <3>1, Zenon DEF MissedInItsSecond
  <2>3. QED
    BY <2>1, <2>2
<1>8. ScriptIsJudged'
  BY <1>1, <1>2 DEF ScriptIsJudged
<1>9. QED
  BY <1>5, <1>6, <1>7, <1>8 DEF ScriptInv

(* The script is saved to its file, when it has one, and evaluated.         *)
LEMMA SetScriptSound ==
  ASSUME ScriptInv, NEW text \in ScriptText, NEW writes \in BOOLEAN, SetScript(text, writes)
  PROVE  ScriptInv'
<1>1. FilesTypeOK /\ TimesInv /\ ScriptIsJudged /\ MissedInItsSecond
  BY DEF ScriptInv
<1>2. script \in ScriptRecord /\ text \in FileText
  BY ScriptFacts DEF FileText
<1>3. PICK s : s = [script EXCEPT !.script = text]
  OBVIOUS
<1>4. /\ s \in ScriptRecord /\ s.file = script.file
      /\ s.mod_time = script.mod_time /\ s.script = text
  BY <1>2, <1>3 DEF ScriptRecord
<1>5. CASE s.file = ""
  <2>1. script' = Evaluated(s) /\ UNCHANGED <<second, fs, synced>>
    BY <1>3, <1>5, Zenon DEF SetScript
  <2>2. PICK e \in ScriptRecord : e = Evaluated(s)
    BY <1>4, EvaluatedScript
  <2>3. /\ e.file = s.file /\ e.mod_time = s.mod_time /\ e.script = s.script
        /\ e.compiled = s.script /\ e.ok = (s.script \in Compiles)
    BY <1>4, <2>2, EvaluatedScript
  <2>4. FilesTypeOK'
    BY <1>1, <2>1, <2>2 DEF FilesTypeOK
  <2>5. TimesInv'
    BY <1>1, <1>4, <2>1, <2>2, <2>3, Zenon DEF TimesInv
  <2>6. ScriptIsJudged' /\ MissedInItsSecond'
    BY <1>5, <2>1, <2>2, <2>3 DEF ScriptIsJudged, MissedInItsSecond
  <2>7. QED
    BY <2>4, <2>5, <2>6 DEF ScriptInv
<1>6. CASE s.file # ""
  <2>1. /\ fs' = IF writes THEN Saved(s.file, text) ELSE fs
        /\ second' = second
        /\ \/ /\ fs'[s.file] = Absent
              /\ script' = [s EXCEPT !.ok = FALSE] /\ synced' = synced
           \/ /\ fs'[s.file] # Absent
              /\ script' = Evaluated([s EXCEPT !.mod_time = fs'[s.file].mtime])
              /\ synced' = [at |-> second, whole |-> writes]
    BY <1>3, <1>6, Zenon DEF SetScript, Saved
  <2>2. s.file \in Path
    BY <1>4, <1>6, ScriptFacts
  <2>3. PICK files : /\ files = fs'
                     /\ files = IF writes THEN Saved(s.file, text) ELSE fs
    BY <2>1
  <2>4. /\ Dated(files)
        /\ writes => files[s.file].text = text
    <3>1. CASE writes
      <4>1. files = Saved(s.file, text)
        BY <2>3, <3>1
      <4>2. QED
        BY <1>2, <2>2, <4>1, WrittenFile
    <3>2. CASE ~writes
      BY <2>3, <3>2, FilesAreDated
    <3>3. QED
      BY <3>1, <3>2
  <2>5. CASE files[s.file] = Absent
    <3>1. script' = [s EXCEPT !.ok = FALSE] /\ UNCHANGED <<second, synced>>
      BY <2>1, <2>3, <2>5
    <3>2. PICK r : r = [s EXCEPT !.ok = FALSE]
      OBVIOUS
    <3>3. r \in ScriptRecord /\ r.file = s.file /\ r.mod_time = s.mod_time /\ ~r.ok
      BY <1>4, <3>2 DEF ScriptRecord
    <3>4. FilesTypeOK'
      BY <1>1, <2>3, <2>4, <3>1, <3>2, <3>3 DEF FilesTypeOK, Dated
    <3>5. TimesInv'
      BY <1>1, <1>4, <2>3, <2>4, <3>1, <3>2, <3>3, Zenon DEF TimesInv, Dated
    <3>6. ScriptIsJudged' /\ MissedInItsSecond'
      BY <2>3, <2>5, <3>1, <3>2, <3>3 DEF ScriptIsJudged, MissedInItsSecond
    <3>7. QED
      BY <3>4, <3>5, <3>6 DEF ScriptInv
  <2>6. CASE files[s.file] # Absent
    <3>1. /\ script' = Evaluated([s EXCEPT !.mod_time = files[s.file].mtime])
          /\ synced' = [at |-> second, whole |-> writes] /\ second' = second
      BY <2>1, <2>3, <2>6
    <3>2. PICK n \in Nat : n = files[s.file].mtime
      BY <2>2, <2>4 DEF Dated
    <3>3. n <= second /\ second <= second /\ second \in Nat
      BY <2>2, <2>4, <3>2, TimeFacts, Counted, Zenon DEF Dated
    <3>4. PICK f : f = [s EXCEPT !.mod_time = n]
      OBVIOUS
    <3>5. f \in ScriptRecord /\ f.file = s.file /\ f.mod_time = n /\ f.script = text
      BY <1>4, <3>4 DEF ScriptRecord
    <3>6. PICK e \in ScriptRecord : e = Evaluated(f)
      BY <3>5, EvaluatedScript
    <3>7. /\ e.file = f.file /\ e.mod_time = f.mod_time /\ e.script = f.script
          /\ e.compiled = f.script /\ e.ok = (f.script \in Compiles)
      BY <3>5, <3>6, EvaluatedScript
    <3>8. script' = e
      BY <3>1, <3>2, <3>4, <3>6, Zenon
    <3>9. synced' \in [at : Nat, whole : BOOLEAN] /\ synced'.at = second /\ synced'.whole = writes
      BY <3>1, <3>3
    <3>10. FilesTypeOK'
      BY <1>1, <2>3, <2>4, <3>1, <3>8, <3>9 DEF FilesTypeOK, Dated
    <3>11. TimesInv'
      BY <2>3, <2>4, <3>1, <3>3, <3>5, <3>7, <3>8, <3>9, Zenon DEF TimesInv, Dated
    <3>12. ScriptIsJudged'
      BY <3>5, <3>7, <3>8 DEF ScriptIsJudged
    <3>13. MissedInItsSecond'
      <4>1. CASE writes
        BY <2>3, <2>4, <3>5, <3>7, <3>8, <4>1, Zenon DEF MissedInItsSecond
      <4>2. CASE ~writes
        BY <3>9, <4>2, Zenon DEF MissedInItsSecond
      <4>3. QED
        BY <4>1, <4>2
    <3>14. QED
      BY <3>10, <3>11, <3>12, <3>13 DEF ScriptInv
  <2>7. QED
    BY <2>5, <2>6
<1>7. QED
  BY <1>5, <1>6

LEMMA SetFileSound ==
  ASSUME ScriptInv, NEW path \in Path, NEW opens \in BOOLEAN, SetFile(path, opens)
  PROVE  ScriptInv'
<1>1. PICK s : s = [script EXCEPT !.file = path]
  OBVIOUS
<1>2. /\ s \in ScriptRecord /\ s.file = path /\ s.mod_time = script.mod_time
      /\ s.script = script.script /\ s.ok = script.ok /\ s.compiled = script.compiled
  BY <1>1, ScriptFacts DEF ScriptRecord
<1>3. /\ script' = Loaded(s, TRUE, opens)
      /\ synced' = IF WasLoaded(TRUE) THEN [at |-> second, whole |-> opens] ELSE synced
      /\ UNCHANGED <<second, fs>>
  BY <1>1, Zenon DEF SetFile
<1>4. QED
  BY <1>2, <1>3, LoadSound

LEMMA SetReloadSound ==
  ASSUME ScriptInv, NEW seconds \in 0..1, SetReload(seconds)
  PROVE  ScriptInv'
<1>1. script \in ScriptRecord /\ second \in Nat /\ second <= second
  BY ScriptFacts, Counted
<1>2. PICK s : s = [script EXCEPT !.reload_every = seconds]
  OBVIOUS
<1>3. seconds \in Nat
  OBVIOUS
<1>4. /\ s \in ScriptRecord /\ s.file = script.file /\ s.mod_time = script.mod_time
      /\ s.script = script.script /\ s.ok = script.ok /\ s.compiled = script.compiled
  BY <1>1, <1>2, <1>3 DEF ScriptRecord
<1>5. PICK n \in Nat : n = NextReload(s)
  BY <1>4, NextReloadType
<1>6. PICK r : r = [s EXCEPT !.next_reload = n]
  OBVIOUS
<1>7. /\ r \in ScriptRecord /\ r.file = s.file /\ r.mod_time = s.mod_time
      /\ r.script = s.script /\ r.ok = s.ok /\ r.compiled = s.compiled
  BY <1>4, <1>6 DEF ScriptRecord
<1>8. script' = r /\ UNCHANGED <<second, fs, synced>>
  BY <1>2, <1>5, <1>6, Zenon DEF SetReload
<1>9. QED
  BY <1>1, <1>4, <1>7, <1>8, PlanSound

LEMMA ReloadSound ==
  ASSUME ScriptInv, NEW opens \in BOOLEAN, ReloadScript(opens)
  PROVE  ScriptInv'
<1>1. script \in ScriptRecord /\ second \in Nat /\ second <= second
  BY ScriptFacts, Counted
<1>2. PICK s : s = [script EXCEPT !.current_time = second]
  OBVIOUS
<1>3. /\ s \in ScriptRecord /\ s.file = script.file /\ s.mod_time = script.mod_time
      /\ s.script = script.script /\ s.ok = script.ok /\ s.compiled = script.compiled
  BY <1>1, <1>2 DEF ScriptRecord
<1>4. PICK n \in Nat : n = NextReload(s)
  BY <1>3, NextReloadType
<1>5. PICK r : r = [s EXCEPT !.next_reload = n]
  OBVIOUS
<1>6. /\ r \in ScriptRecord /\ r.file = s.file /\ r.mod_time = s.mod_time
      /\ r.script = s.script /\ r.ok = s.ok /\ r.compiled = s.compiled
  BY <1>3, <1>5 DEF ScriptRecord
<1>7. UNCHANGED <<second, fs>>
  BY DEF ReloadScript
<1>8. CASE s.next_reload # 0 /\ s.next_reload <= second
  <2>1. /\ script' = Loaded(r, FALSE, opens)
        /\ synced' = IF WasLoaded(FALSE) THEN [at |-> second, whole |-> opens] ELSE synced
    BY <1>2, <1>4, <1>5, <1>8, Zenon DEF ReloadScript
  <2>2. /\ r.file = script.file /\ r.mod_time = script.mod_time /\ r.script = script.script
        /\ r.ok = script.ok /\ r.compiled = script.compiled /\ script.file \in Path \cup {""}
    BY <1>3, <1>6, ScriptFacts
  <2>3. QED
    BY <1>6, <1>7, <2>1, <2>2, LoadSound
<1>9. CASE ~(s.next_reload # 0 /\ s.next_reload <= second)
  <2>1. script' = s /\ synced' = synced
    BY <1>2, <1>9, Zenon DEF ReloadScript
  <2>2. QED
    BY <1>1, <1>3, <1>7, <2>1, PlanSound
<1>10. QED
  BY <1>8, <1>9

LEMMA ElapseSound == ASSUME ScriptInv, Elapse PROVE ScriptInv'
<1>1. script \in ScriptRecord /\ second \in Nat
  BY ScriptFacts
<1>2. second' = second + 1 /\ UNCHANGED <<fs, script, synced>>
  BY DEF Elapse
<1>3. second' \in Nat /\ second <= second'
  <2>1. second \in Nat /\ second' = second + 1
    BY <1>1, <1>2
  <2>2. \A n \in Nat : n + 1 \in Nat /\ n <= n + 1
    OBVIOUS
  <2>3. QED
    BY <2>1, <2>2, Zenon
<1>4. QED
  BY <1>1, <1>2, <1>3, PlanSound

LEMMA ScriptStep == ASSUME ScriptInv, ScriptNext PROVE ScriptInv'
<1>1. CASE \E text \in ScriptText, writes \in BOOLEAN : SetScript(text, writes)
  BY <1>1, SetScriptSound
<1>2. CASE \E path \in Path : (\E opens \in BOOLEAN : SetFile(path, opens)) \/ Unlink(path)
  BY <1>2, SetFileSound, UnlinkSound
<1>3. CASE \E seconds \in 0..1 : SetReload(seconds)
  BY <1>3, SetReloadSound
<1>4. CASE \E path \in Path, text \in ScriptText : Edit(path, text)
  BY <1>4, EditSound
<1>5. CASE (\E opens \in BOOLEAN : ReloadScript(opens)) \/ Elapse
  BY <1>5, ReloadSound, ElapseSound
<1>6. QED
  BY <1>1, <1>2, <1>3, <1>4, <1>5 DEF ScriptNext

LEMMA ScriptStutter == ScriptInv /\ UNCHANGED scriptVars => ScriptInv'
BY DEF ScriptInv, FilesTypeOK, TimesInv, ScriptIsJudged, MissedInItsSecond, scriptVars

(* What is in the cache is in the file, in each step of the methods.        *)
LEMMA HashInitially == FilesInit => AnswerIsWritten
BY DEF FilesInit, AnswerIsWritten

LEMMA WriteIsKept ==
  ASSUME NEW h, NEW works \in BOOLEAN, FileWrite(h, works), works => hash_' = h
  PROVE  AnswerIsWritten'
BY DEF FileWrite, JsonOf, AnswerIsWritten

LEMMA HashStep == ASSUME AnswerIsWritten, HashNext PROVE AnswerIsWritten'
<1>1. CASE TriggerRead
  BY <1>1 DEF TriggerRead, Read, AnswerIsWritten
<1>2. ASSUME NEW h \in HashContents, NEW works \in BOOLEAN, TriggerWrite(h, works)
      PROVE  AnswerIsWritten'
  <2>1. FileWrite(h, works) /\ (works => hash_' = h)
    BY <1>2 DEF TriggerWrite
  <2>2. QED
    BY <2>1, WriteIsKept
<1>3. ASSUME NEW u \in Updates, NEW works \in BOOLEAN, Update(u, works)
      PROVE  AnswerIsWritten'
  <2>1. CASE UNCHANGED hashVars
    BY <2>1 DEF hashVars, AnswerIsWritten
  <2>2. CASE FileWrite(hash_', works)
    <3>1. PICK h : h = hash_'
      OBVIOUS
    <3>2. FileWrite(h, works)
      BY <2>2, <3>1
    <3>3. QED
      BY <3>1, <3>2, WriteIsKept
  <2>3. QED
    BY <1>3, <2>1, <2>2 DEF Update
<1>4. QED
  BY <1>1, <1>2, <1>3 DEF HashNext

LEMMA HashStutter == AnswerIsWritten /\ UNCHANGED hashVars => AnswerIsWritten'
BY DEF hashVars, AnswerIsWritten

(* An update merges into what is in the file, read before or not.           *)
LEMMA ReadIsFile ==
  ASSUME AnswerIsWritten, IsHash(hashFile), ~unwritten
  PROVE  Read = hashFile /\ hashFile # Empty_
<1>1. hashFile # Empty_
  <2>1. Empty_.kind = "empty"
    BY DEF Empty_, Contents
  <2>2. hashFile.kind = "hash"
    BY DEF IsHash
  <2>3. QED
    BY <2>1, <2>2
<1>2. QED
  BY <1>1 DEF Read, AnswerIsWritten

LEMMA MergeKeepsOthers ==
  ASSUME NEW v, NEW u, NEW k \in DOMAIN v.map \ DOMAIN u
  PROVE  /\ MergedWith(v, u) # Empty_
         /\ k \in DOMAIN MergedWith(v, u).map /\ MergedWith(v, u).map[k] = v.map[k]
<1>1. PICK keys : keys = (DOMAIN v.map \ {j \in DOMAIN u : u[j] = Nil_}) \cup (DOMAIN u \ DOMAIN v.map)
  OBVIOUS
<1>2. PICK m : m = [j \in keys |-> IF j \in DOMAIN u THEN u[j] ELSE v.map[j]]
  OBVIOUS
<1>3. MergedWith(v, u) = Contents("hash", m)
  BY <1>1, <1>2, Zenon DEF MergedWith
<1>4. k \in DOMAIN m /\ m[k] = v.map[k]
  BY <1>1, <1>2
<1>5. Contents("hash", m).map = m /\ Contents("hash", m).kind = "hash" /\ Empty_.kind = "empty"
  BY DEF Contents, Empty_
<1>6. QED
  BY <1>3, <1>4, <1>5

LEMMA OthersAreKept == AnswerIsWritten => UpdateKeepsOthers
<1> SUFFICES ASSUME AnswerIsWritten, NEW u \in Updates,
                    Update(u, TRUE), IsHash(hashFile), ~unwritten,
                    NEW k \in DOMAIN hashFile.map \ DOMAIN u
             PROVE  k \in DOMAIN hashFile'.map /\ hashFile'.map[k] = hashFile.map[k]
  BY DEF UpdateKeepsOthers
<1>1. Read = hashFile /\ hashFile # Empty_
  BY ReadIsFile
<1>2. hash_' = MergedWith(hashFile, u) /\ FileWrite(hash_', TRUE)
  BY <1>1 DEF Update
<1>3. PICK h : h = hash_'
  OBVIOUS
<1>4. PICK file : file = hashFile
  OBVIOUS
<1>5. k \in DOMAIN file.map \ DOMAIN u /\ h = MergedWith(file, u)
  BY <1>2, <1>3, <1>4
<1>6. h # Empty_ /\ k \in DOMAIN h.map /\ h.map[k] = file.map[k]
  BY <1>5, MergeKeepsOthers
<1>7. hashFile' = h
  <2>1. hashFile' = JsonOf(h)
    BY <1>2, <1>3 DEF FileWrite
  <2>2. QED
    BY <1>6, <2>1 DEF JsonOf
<1>8. QED
  BY <1>4, <1>6, <1>7

(* The script that is shown, when approved, is the one that compiled; a     *)
(* change of its file that the reload cannot see was made in the second of  *)
(* the last load or save, or after a save that failed; and what a           *)
(* HashFileMethod answers is in its file, where updates leave the other     *)
(* keys alone.                                                              *)
THEOREM FilesStayKept == FilesSpec => FilesAreKept
<1>1. FilesInit => ScriptInv /\ AnswerIsWritten
  BY FilesInitially, HashInitially
<1>2. ScriptInv /\ AnswerIsWritten
      /\ [\/ ScriptNext /\ UNCHANGED hashVars
          \/ HashNext /\ UNCHANGED scriptVars]_<<scriptVars, hashVars>>
      => (ScriptInv /\ AnswerIsWritten)'
  <2> SUFFICES ASSUME ScriptInv, AnswerIsWritten,
                      [\/ ScriptNext /\ UNCHANGED hashVars
                       \/ HashNext /\ UNCHANGED scriptVars]_<<scriptVars, hashVars>>
               PROVE  ScriptInv' /\ AnswerIsWritten'
    OBVIOUS
  <2>1. CASE ScriptNext /\ UNCHANGED hashVars
    BY <2>1, ScriptStep, HashStutter
  <2>2. CASE HashNext /\ UNCHANGED scriptVars
    BY <2>2, HashStep, ScriptStutter
  <2>3. CASE UNCHANGED <<scriptVars, hashVars>>
    BY <2>3, ScriptStutter, HashStutter
  <2>4. QED
    BY <2>1, <2>2, <2>3
<1>3. ScriptInv /\ AnswerIsWritten => ScriptIsJudged /\ MissedInItsSecond /\ AnswerIsWritten
  BY DEF ScriptInv
<1>4. AnswerIsWritten => [UpdateKeepsOthers]_hashVars
  BY OthersAreKept
<1>5. QED
  BY <1>1, <1>2, <1>3, <1>4, PTL DEF FilesSpec, FilesAreKept

=============================================================================
