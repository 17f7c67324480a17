---------------------------- MODULE TimingProofs ---------------------------
(***************************************************************************)
(* Proofs about the two components that time drives: the Timer's control,  *)
(* for any set of client threads and any supply of loop threads, and the    *)
(* object proxy that throttles what it sends, for any bounds, any network   *)
(* and, where it is not said otherwise, any interleaving of the user's      *)
(* thread with the command's.                                               *)
(***************************************************************************)
EXTENDS Timer, ObjectProxy, TLAPS

-----------------------------------------------------------------------------
(* Timer.  The inductive invariant is TypeOK /\ TimerInv: the client that   *)
(* holds the mutex knows, at each point of its method, what the loop can be *)
(* doing.                                                                   *)

(* Every variable of Timer keeps its type through every step.              *)
THEOREM TimerTypeOK == TimerSpec => []TypeOK
<1>1. TimerInit => TypeOK
  <2> SUFFICES ASSUME TimerInit
               PROVE  TypeOK
    OBVIOUS
  <2>1. running_ \in BOOLEAN /\ should_run_ \in BOOLEAN
    BY DEF TimerInit
  <2>2. /\ op \in [Client -> Method]
        /\ cpc \in [Client -> ClientPc]
        /\ target \in [Client -> Loop \cup {NoThread}]
        /\ lpc \in [Loop -> LoopPc]
    BY DEF TimerInit, Method, ClientPc, LoopPc
  <2>3. QED
    BY <2>1, <2>2 DEF TimerInit, TypeOK
<1>2. TypeOK /\ [TimerNext]_timerVars => TypeOK'
  <2> SUFFICES ASSUME TypeOK, [TimerNext]_timerVars
               PROVE  TypeOK'
    OBVIOUS
  <2> USE DEF TypeOK
  <2>1. ASSUME NEW c \in Client, NEW m \in Method, Call(c, m)
        PROVE  TypeOK'
    BY <2>1 DEF Call, Goto, ClientPc
  <2>2. ASSUME NEW c \in Client, ClientStep(c)
        PROVE  TypeOK'
    <3>1. CASE Decide(c)
      BY <3>1 DEF Decide, Goto, ClientPc
    <3>2. CASE Interrupt(c)
      BY <3>2 DEF Interrupt, Goto, ClientPc, LoopPc
    <3>3. CASE JoinTest(c)
      BY <3>3 DEF JoinTest, Goto, ClientPc
    <3>4. CASE JoinCall(c)
      BY <3>4 DEF JoinCall, Goto, ClientPc
    <3>5. CASE JoinDone(c)
      BY <3>5 DEF JoinDone, Goto, ClientPc
    <3>6. CASE AfterJoin(c)
      BY <3>6 DEF AfterJoin, Goto, ClientPc
    <3>7. CASE Create(c)
      BY <3>7 DEF Create, Goto, LoopGoto, ClientPc, LoopPc
    <3>8. CASE AcquireReady(c)
      BY <3>8 DEF AcquireReady, Goto, ClientPc
    <3>9. CASE Unlock(c)
      BY <3>9 DEF Unlock, Goto, ClientPc
    <3>10. QED
      BY <2>2, <3>1, <3>2, <3>3, <3>4, <3>5, <3>6, <3>7, <3>8, <3>9
         DEF ClientStep
  <2>3. ASSUME NEW l \in Loop, LoopStep(l)
        PROVE  TypeOK'
    <3>1. CASE LoopStart(l)
      BY <3>1 DEF LoopStart, LoopGoto, LoopPc, clientVars
    <3>2. CASE LoopTest(l)
      BY <3>2 DEF LoopTest, LoopGoto, LoopPc, clientVars
    <3>3. CASE LoopLock(l)
      BY <3>3 DEF LoopLock, LoopGoto, LoopPc, clientVars
    <3>4. CASE LoopUnlock(l)
      BY <3>4 DEF LoopUnlock, LoopGoto, LoopPc, clientVars
    <3>5. CASE LoopSleep(l)
      BY <3>5 DEF LoopSleep, LoopGoto, LoopPc, clientVars
    <3>6. CASE LoopWake(l)
      BY <3>6 DEF LoopWake, LoopGoto, LoopPc, clientVars
    <3>7. CASE LoopLeave(l)
      BY <3>7 DEF LoopLeave, LoopGoto, LoopPc, clientVars
    <3>8. CASE LoopReturn(l)
      BY <3>8 DEF LoopReturn, LoopGoto, LoopPc, clientVars
    <3>9. QED
      BY <2>3, <3>1, <3>2, <3>3, <3>4, <3>5, <3>6, <3>7, <3>8 DEF LoopStep
  <2>4. CASE UNCHANGED timerVars
    BY <2>4 DEF timerVars
  <2>5. QED
    BY <2>1, <2>2, <2>3, <2>4 DEF TimerNext
<1>3. QED
  BY <1>1, <1>2, PTL DEF TimerSpec

(* The inductive invariant of the timer holds: HolderInv, LoopInv and, for *)
(* each client, what its program counter lets it rely on.                  *)
THEOREM TimerInvariant == TimerSpec => []TimerInv
<1>1. TimerInit => TimerInv
  BY ThreadsAssumption
     DEF TimerInit, TimerInv, HolderInv, LoopInv, ClientInv, Steady, Alive
<1>2. TypeOK /\ TimerInv /\ [TimerNext]_timerVars => TimerInv'
  <2> SUFFICES ASSUME TypeOK, TimerInv, [TimerNext]_timerVars
               PROVE  TimerInv'
    OBVIOUS
  <2> USE ThreadsAssumption
      DEF TimerInv, HolderInv, LoopInv, ClientInv, Steady, ToldToLeave, Alive,
          Looping
  <2>1. ASSUME NEW c \in Client, NEW m \in Method, Call(c, m)
        PROVE  TimerInv'
    BY <2>1 DEF TypeOK, Call, Goto, Method
  <2>2. ASSUME NEW c \in Client, ClientStep(c)
        PROVE  TimerInv'
    <3>1. CASE Decide(c)
      BY <3>1 DEF TypeOK, Decide, Goto
    <3>2. CASE Interrupt(c)
      BY <3>2 DEF TypeOK, Interrupt, Goto
    <3>3. CASE JoinTest(c)
      BY <3>3 DEF TypeOK, JoinTest, Goto
    <3>4. CASE JoinCall(c)
      BY <3>4 DEF TypeOK, JoinCall, Goto
    <3>5. CASE JoinDone(c)
      BY <3>5 DEF TypeOK, JoinDone, Goto
    <3>6. CASE AfterJoin(c)
      BY <3>6 DEF TypeOK, AfterJoin, Goto
    <3>7. CASE Create(c)
      BY <3>7 DEF TypeOK, Create, Goto, LoopGoto
    <3>8. CASE AcquireReady(c)
      BY <3>8 DEF TypeOK, AcquireReady, Goto
    <3>9. CASE Unlock(c)
      BY <3>9 DEF TypeOK, Unlock, Goto
    <3>10. QED
      BY <2>2, <3>1, <3>2, <3>3, <3>4, <3>5, <3>6, <3>7, <3>8, <3>9
         DEF ClientStep
  <2>3. ASSUME NEW l \in Loop, LoopStep(l)
        PROVE  TimerInv'
    <3>1. CASE LoopStart(l)
      <4>1. thread_id_ = l /\ lpc[l] = "starting" /\ l # NoThread
        BY <3>1 DEF LoopStart, LoopGoto
      <4>2. PICK c \in Client : mutex_ = c /\ cpc[c] # "idle"
        BY <4>1
      <4>3. cpc[c] = "wait_ready" /\ semaphore_ = 0
        BY <4>1, <4>2 DEF TypeOK, ClientPc, Method
      <4>4. /\ lpc' = [lpc EXCEPT ![l] = "test"]
            /\ lpc'[l] = "test"
            /\ should_run_' /\ running_' /\ semaphore_' = 1
            /\ UNCHANGED <<mutex_, thread_id_, op, cpc, target>>
        BY <3>1, <4>3 DEF LoopStart, LoopGoto, clientVars, TypeOK
      <4>5. HolderInv' /\ LoopInv'
        BY <4>1, <4>4 DEF TypeOK
      <4>6. ASSUME NEW d \in Client
            PROVE  ClientInv(d)'
        <5>1. d = c \/ cpc'[d] = "idle"
          BY <4>2, <4>4
        <5>2. QED
          BY <4>1, <4>3, <4>4, <5>1
      <4>7. QED
        BY <4>1, <4>2, <4>3, <4>4, <4>5, <4>6
    <3>2. CASE LoopTest(l)
      BY <3>2 DEF TypeOK, LoopTest, LoopGoto, clientVars
    <3>3. CASE LoopLock(l)
      BY <3>3 DEF TypeOK, LoopLock, LoopGoto, clientVars
    <3>4. CASE LoopUnlock(l)
      BY <3>4 DEF TypeOK, LoopUnlock, LoopGoto, clientVars
    <3>5. CASE LoopSleep(l)
      BY <3>5 DEF TypeOK, LoopSleep, LoopGoto, clientVars
    <3>6. CASE LoopWake(l)
      BY <3>6 DEF TypeOK, LoopWake, LoopGoto, clientVars
    <3>7. CASE LoopLeave(l)
      BY <3>7 DEF TypeOK, LoopLeave, LoopGoto, clientVars
    <3>8. CASE LoopReturn(l)
      BY <3>8 DEF TypeOK, LoopReturn, LoopGoto, clientVars
    <3>9. QED
      BY <2>3, <3>1, <3>2, <3>3, <3>4, <3>5, <3>6, <3>7, <3>8 DEF LoopStep
  <2>4. CASE UNCHANGED timerVars
    BY <2>4 DEF timerVars
  <2>5. QED
    BY <2>1, <2>2, <2>3, <2>4 DEF TimerNext
<1>3. QED
  BY <1>1, <1>2, TimerTypeOK, PTL DEF TimerSpec

(* Two loop threads never exist together, whatever clients interleave.     *)
THEOREM TimerOneLoop == TimerSpec => []OneLoop
<1>1. TypeOK /\ TimerInv => OneLoop
  BY DEF TimerInv, LoopInv, OneLoop
<1>2. QED
  BY <1>1, TimerTypeOK, TimerInvariant, PTL

(* Once stop has cleared should_run_ and returned, no loop is left.        *)
THEOREM TimerQuietAfterStop == TimerSpec => []QuietAfterStop
<1>1. TypeOK /\ TimerInv => QuietAfterStop
  BY ThreadsAssumption DEF TimerInv, LoopInv, Steady, QuietAfterStop
<1>2. QED
  BY <1>1, TimerTypeOK, TimerInvariant, PTL

(* running() says whether a loop exists whenever no method is in progress. *)
THEOREM TimerRunningIsAccurate == TimerSpec => []RunningIsAccurate
<1>1. TypeOK /\ TimerInv => RunningIsAccurate
  BY ThreadsAssumption
     DEF TypeOK, TimerInv, LoopInv, Steady, RunningIsAccurate
<1>2. QED
  BY <1>1, TimerTypeOK, TimerInvariant, PTL

(* start never takes the "already running" branch of Thread::start_thread. *)
THEOREM TimerStartNeverRefused == TimerSpec => []StartNeverRefused
<1>1. TimerInv => StartNeverRefused
  BY DEF TimerInv, ClientInv, StartNeverRefused
<1>2. QED
  BY <1>1, TimerInvariant, PTL

(* The semaphore is raised for the waiting client only, and raised once.   *)
THEOREM TimerReadyIsOwed == TimerSpec => []ReadyIsOwed
<1>1. TypeOK /\ TimerInv => ReadyIsOwed
  BY DEF TypeOK, TimerInv, ClientInv, Steady, ReadyIsOwed
<1>2. QED
  BY <1>1, TimerTypeOK, TimerInvariant, PTL

-----------------------------------------------------------------------------
(* The object proxy: arithmetic *)

(* One and a half of a length of time is a length of time.                  *)
LEMMA OneAndAHalfType == \A t \in Nat : OneAndAHalf(t) \in Nat
  BY DEF OneAndAHalf

(* What now + (latency_ * 1.5) gives.                                       *)
LEMMA DeadlineValue ==
  ASSUME NEW t \in Nat, latency_ \in Int
  PROVE  /\ Deadline(t) \in Int
         /\ latency_ >= 0 => Deadline(t) = t + OneAndAHalf(latency_)
         /\ latency_ < 0 => Deadline(t) <= t
  BY DEF Deadline, Quotient, OneAndAHalf

(* A wait that ends within one and a half latencies cannot take more than   *)
(* the latency off the latency.                                             *)
LEMMA UpdatedLatencyValue ==
  ASSUME now \in Nat, wait_until_ \in Int, latency_ \in Int
  PROVE  /\ UpdatedLatency \in Int
         /\ latency_ >= 0 /\ wait_until_ <= now + OneAndAHalf(latency_)
              => UpdatedLatency >= 0
  BY DEF UpdatedLatency, Quotient, OneAndAHalf

(* A value change measures a first latency that is not negative, and keeps  *)
(* one that was measured from turning negative.                             *)
LEMMA ValueChangeLatency ==
  ASSUME HandleValue, LatencyInv
  PROVE  /\ latency_' \in Int
         /\ latency_ >= 0 => latency_' >= 0
         /\ hpc' \in {"idle", "query"} =>
              \/ UNCHANGED <<latency_, wait_until_>>
              \/ latency_' >= 0 /\ wait_until_' = 0
         /\ wait_until_' = wait_until_ \/ (latency_' >= 0 /\ wait_until_' = 0)
  <1>1. CASE ~typed
    BY <1>1 DEF HandleValue, ValueChange, LatencyInv
  <1>2. CASE typed /\ latency_ < 0 /\ wait_until_ >= 0
    BY <1>2 DEF HandleValue, ValueChange, LatencyInv
  <1>3. CASE typed /\ ~(latency_ < 0 /\ wait_until_ >= 0)
    <2>1. UpdatedLatency \in Int
      BY UpdatedLatencyValue DEF LatencyInv
    <2>2. latency_ >= 0 => UpdatedLatency >= 0
      BY UpdatedLatencyValue DEF LatencyInv, HandleValue, ValueChange, Receives
    <2>3. /\ latency_' = IF wait_until_ = 0 THEN latency_ ELSE UpdatedLatency
          /\ wait_until_' = wait_until_
          /\ hpc' \in {"clear", "flush"}
      BY <1>3 DEF HandleValue, ValueChange
    <2> QED BY <2>1, <2>2, <2>3 DEF LatencyInv
  <1> QED BY <1>1, <1>2, <1>3

-----------------------------------------------------------------------------
(* The latency and the wait *)

(* Every step of either thread, of the remote or of the network keeps       *)
(* LatencyInv, in any interleaving.                                         *)
LEMMA LatencyStep == LatencyInv /\ [Next]_vars => LatencyInv'
  <1> SUFFICES ASSUME LatencyInv, [Next]_vars PROVE LatencyInv'
    OBVIOUS
  <1>1. CASE Adopt
    BY <1>1 DEF Adopt, QueryValue, Branch, LatencyInv, userVars
  <1>2. CASE SetValue
    BY <1>2 DEF SetValue, Branch, LatencyInv, proxyVars
  <1>3. CASE FinishSet
    <2>1. CASE SetFirst
      BY <1>3, <2>1, OneAndAHalfType DEF FinishSet, SetFirst, LatencyInv
    <2>2. CASE SetSend
      BY <1>3, <2>2, OneAndAHalfType, DeadlineValue
      DEF FinishSet, SetSend, LatencyInv
    <2>3. CASE SetStore
      BY <1>3, <2>3 DEF FinishSet, SetStore, LatencyInv
    <2> QED BY <1>3, <2>1, <2>2, <2>3 DEF FinishSet
  <1>4. CASE ResetConnection
    BY <1>4 DEF ResetConnection, LatencyInv, netVars
  <1>5. CASE HandleReply
    <2>1. ASSUME HandleAttrs PROVE LatencyInv'
      BY <2>1 DEF HandleAttrs, Receives, LatencyInv, userVars
    <2>2. ASSUME HandleValue PROVE LatencyInv'
      <3>1. UNCHANGED <<now, unow, upc, resets>> /\ hpc = "idle"
        BY <2>2 DEF HandleValue, ValueChange, Receives, userVars
      <3> QED BY <2>2, <3>1, ValueChangeLatency, OneAndAHalfType DEF LatencyInv
    <2>3. CASE HandleQuery
      BY <2>3 DEF HandleQuery, QueryValue, Branch, LatencyInv, userVars
    <2>4. CASE HandleFlush
      BY <2>4 DEF HandleFlush, LatencyInv, userVars, proxyVars
    <2>5. CASE HandleFlushed
      BY <2>5, OneAndAHalfType, DeadlineValue
      DEF HandleFlushed, LatencyInv, userVars
    <2>6. CASE HandleClear
      BY <2>6, OneAndAHalfType DEF HandleClear, LatencyInv, userVars
    <2> QED BY <1>5, <2>1, <2>2, <2>3, <2>4, <2>5, <2>6 DEF HandleReply
  <1>6. CASE RemoteReceive \/ RemoteChange \/ NetworkFails \/ UNCHANGED vars
    BY <1>6 DEF RemoteReceive, RemoteChange, NetworkFails, LatencyInv, proxyVars,
                userVars, vars
  <1>7. CASE Tick
    BY <1>7, OneAndAHalfType DEF Tick, LatencyInv, proxyVars, userVars
  <1> QED BY <1>1, <1>2, <1>3, <1>4, <1>5, <1>6, <1>7 DEF Next

(* LatencyInv is an invariant of the proxy, whoever calls it and whatever   *)
(* the network does.                                                        *)
THEOREM LatencyInvariant == Spec => []LatencyInv
  <1>1. Init => LatencyInv
    BY DEF Init, LatencyInv
  <1> QED BY <1>1, LatencyStep, PTL DEF Spec

(* handle_value_change and set_value never leave a wait of more than one    *)
(* and a half latencies behind.                                             *)
THEOREM WaitBounded == Spec => []WaitIsBounded
  <1>1. LatencyInv => WaitIsBounded
    BY DEF LatencyInv, WaitIsBounded
  <1> QED BY <1>1, LatencyInvariant, PTL

(* The gentle update of the latency (object_proxy.cpp:90) never takes a     *)
(* measured latency back to "not measured".                                 *)
THEOREM LatencyNeverLost == Spec => LatencyStaysMeasured
  <1>1. LatencyInv /\ [Next]_vars
          => [latency_ >= 0 /\ resets' = resets => latency_' >= 0]_vars
    <2> SUFFICES ASSUME LatencyInv, Next, latency_ >= 0, resets' = resets
                 PROVE  latency_' >= 0
      OBVIOUS
    <2>1. ASSUME HandleValue PROVE latency_' >= 0
      BY <2>1, ValueChangeLatency
    <2>2. CASE ResetConnection
      BY <2>2 DEF ResetConnection, LatencyInv
    <2>3. CASE \/ Adopt \/ SetValue \/ FinishSet \/ HandleQuery
               \/ HandleFlush \/ HandleFlushed \/ HandleClear
               \/ RemoteReceive \/ RemoteChange \/ NetworkFails \/ Tick
      BY <2>3 DEF Adopt, SetValue, FinishSet, HandleQuery, HandleFlush,
                  HandleFlushed, HandleClear, RemoteReceive, RemoteChange,
                  NetworkFails, Tick, proxyVars
    <2>4. ASSUME HandleAttrs PROVE latency_' >= 0
      BY <2>4 DEF HandleAttrs
    <2> QED BY <2>1, <2>2, <2>3, <2>4 DEF Next, HandleReply
  <1> QED BY <1>1, LatencyInvariant, PTL DEF Spec, LatencyStaysMeasured

-----------------------------------------------------------------------------
(* Throttling, under the command's lock *)

(* Every step keeps ThrottleInv.                                            *)
LEMMA ThrottleStep ==
  Serialised /\ LatencyInv /\ ThrottleInv /\ [Next]_vars => ThrottleInv'
  <1> SUFFICES ASSUME Serialised, LatencyInv, ThrottleInv, [Next]_vars
               PROVE  ThrottleInv'
    OBVIOUS
  <1>1. CASE Adopt
    BY <1>1 DEF Adopt, QueryValue, Branch, SendValue, LatencyInv, ThrottleInv,
                userVars, histVars
  <1>2. CASE SetValue
    BY <1>2 DEF SetValue, Branch, HandlerIdle, LatencyInv, ThrottleInv,
                proxyVars, histVars
  <1>3. CASE FinishSet
    <2>1. CASE SetFirst
      BY <1>3, <2>1 DEF FinishSet, SetFirst, SendValue, LatencyInv, ThrottleInv
    <2>2. CASE SetSend
      BY <1>3, <2>2, DeadlineValue
      DEF FinishSet, SetSend, SendValue, LatencyInv, ThrottleInv
    <2>3. CASE SetStore
      BY <1>3, <2>3 DEF FinishSet, SetStore, ThrottleInv, histVars
    <2> QED BY <1>3, <2>1, <2>2, <2>3 DEF FinishSet
  <1>4. CASE ResetConnection
    BY <1>4 DEF ResetConnection, LatencyInv, ThrottleInv, netVars, histVars
  <1>5. CASE HandleReply
    <2>1. ASSUME HandleAttrs PROVE ThrottleInv'
      BY <2>1 DEF HandleAttrs, Receives, ThrottleInv, userVars
    <2>2. ASSUME HandleValue PROVE ThrottleInv'
      <3>1. /\ upc = "idle" /\ hpc = "idle" /\ adopted
            /\ UNCHANGED <<upc, adopted, sentAt, now>>
        BY <2>2 DEF HandleValue, ValueChange, Receives, userVars
      <3>2. CASE typed
        <4>1. answered'
          BY <2>2, <3>2 DEF HandleValue, ValueChange
        <4> QED BY <3>1, <4>1 DEF ThrottleInv
      <3>3. CASE ~typed
        BY <2>2, <3>1, <3>3 DEF HandleValue, ValueChange, ThrottleInv
      <3> QED BY <3>2, <3>3
    <2>3. CASE HandleQuery
      BY <2>3 DEF HandleQuery, QueryValue, Branch, SendValue, LatencyInv,
                  ThrottleInv, userVars, histVars
    <2>4. CASE HandleFlush
      BY <2>4 DEF HandleFlush, SendValue, LatencyInv, ThrottleInv, userVars,
                  proxyVars
    <2>5. CASE HandleFlushed
      BY <2>5, DeadlineValue, OneAndAHalfType
      DEF HandleFlushed, LatencyInv, ThrottleInv, userVars, netVars, histVars
    <2>6. CASE HandleClear
      BY <2>6 DEF HandleClear, ThrottleInv, userVars, netVars, histVars
    <2> QED BY <1>5, <2>1, <2>2, <2>3, <2>4, <2>5, <2>6 DEF HandleReply
  <1>6. CASE RemoteReceive \/ RemoteChange \/ NetworkFails \/ UNCHANGED vars
    BY <1>6 DEF RemoteReceive, RemoteChange, NetworkFails, ThrottleInv, proxyVars,
                userVars, histVars, vars
  <1>7. CASE Tick
    BY <1>7 DEF Tick, LatencyInv, ThrottleInv, proxyVars, userVars, histVars
  <1> QED BY <1>1, <1>2, <1>3, <1>4, <1>5, <1>6, <1>7 DEF Next

(* With the user's thread under the command's lock, the wait reaches one    *)
(* and a half latencies beyond the last message that has no answer.         *)
THEOREM ThrottleInvariant ==
  ASSUME Serialised
  PROVE  Spec => []ThrottleInv
  <1>1. Init => ThrottleInv
    BY DEF Init, ThrottleInv
  <1>2. LatencyInv /\ ThrottleInv /\ [Next]_vars => ThrottleInv'
    BY ThrottleStep
  <1> QED BY <1>1, <1>2, LatencyInvariant, PTL DEF Spec

(* Without an answer in between, two messages on the value are one and a    *)
(* half latencies apart, as long as the user's calls are serialised with    *)
(* the handling of the replies.                                             *)
THEOREM SendsAreThrottled ==
  ASSUME Serialised
  PROVE  Spec => Throttled
  <1> DEFINE Apart == sentAt' # sentAt /\ ~answered /\ latency_ >= 0
                        => sentAt' >= sentAt + OneAndAHalf(latency_)
  <1>1. LatencyInv /\ ThrottleInv /\ [Next]_vars => [Apart]_vars
    <2> SUFFICES ASSUME LatencyInv, ThrottleInv, Next, sentAt' # sentAt,
                        ~answered, latency_ >= 0
                 PROVE  sentAt' >= sentAt + OneAndAHalf(latency_)
      OBVIOUS
    <2>1. CASE FinishSet
      <3>1. CASE SetFirst
        BY <3>1 DEF SetFirst, LatencyInv, ThrottleInv
      <3>2. CASE SetSend
        <4>1. wait_until_ >= sentAt + OneAndAHalf(latency_)
          BY <3>2 DEF SetSend, ThrottleInv
        <4> QED BY <3>2, <4>1, OneAndAHalfType
                DEF SetSend, SendValue, LatencyInv, ThrottleInv
      <3>3. CASE SetStore
        BY <3>3 DEF SetStore, histVars
      <3> QED BY <2>1, <3>1, <3>2, <3>3 DEF FinishSet
    <2>2. CASE Adopt \/ HandleQuery
      BY <2>2 DEF Adopt, HandleQuery, QueryValue, Branch, LatencyInv, histVars
    <2>3. CASE HandleFlush
      BY <2>3 DEF HandleFlush, ThrottleInv
    <2>4. ASSUME HandleAttrs \/ HandleValue PROVE FALSE
      BY <2>4 DEF HandleAttrs, HandleValue, ValueChange, Receives
    <2>5. ~(\/ SetValue \/ ResetConnection \/ HandleFlushed \/ HandleClear
            \/ RemoteReceive \/ RemoteChange \/ NetworkFails \/ Tick)
      BY DEF SetValue, ResetConnection, HandleFlushed, HandleClear,
             RemoteReceive, RemoteChange, NetworkFails, Tick, netVars, histVars
    <2> QED BY <2>1, <2>2, <2>3, <2>4, <2>5 DEF Next, HandleReply
  <1> QED BY <1>1, LatencyInvariant, ThrottleInvariant, PTL
          DEF Spec, Throttled

-----------------------------------------------------------------------------
(* The value kept for later, under the command's lock *)

(* Every step keeps PendingInv.                                             *)
LEMMA PendingStep ==
  /\ Serialised /\ LatencyInv /\ ThrottleInv /\ PendingInv
  /\ [Next]_vars
  => PendingInv'
  <1> SUFFICES ASSUME Serialised, LatencyInv, ThrottleInv, PendingInv,
                      [Next]_vars
               PROVE  PendingInv'
    OBVIOUS
  <1>1. CASE Adopt
    BY <1>1 DEF Adopt, QueryValue, Branch, LatencyInv, PendingInv, userVars
  <1>2. CASE SetValue
    BY <1>2 DEF SetValue, Branch, LatencyInv, PendingInv, proxyVars
  <1>3. CASE FinishSet
    <2>1. CASE SetFirst
      BY <1>3, <2>1 DEF FinishSet, SetFirst, LatencyInv, ThrottleInv,
                          PendingInv
    <2>2. CASE SetSend
      <3>1. Deadline(unow) \in Int /\ Deadline(unow) >= wait_until_
        BY <2>2, DeadlineValue, OneAndAHalfType
        DEF SetSend, LatencyInv, ThrottleInv
      <3> QED BY <1>3, <2>2, <3>1
              DEF FinishSet, SetSend, LatencyInv, ThrottleInv, PendingInv
    <2>3. CASE SetStore
      BY <1>3, <2>3 DEF FinishSet, SetStore, LatencyInv, ThrottleInv, PendingInv
    <2> QED BY <1>3, <2>1, <2>2, <2>3 DEF FinishSet
  <1>4. CASE ResetConnection
    BY <1>4 DEF ResetConnection, LatencyInv, PendingInv
  <1>5. CASE HandleReply
    <2>1. ASSUME HandleAttrs PROVE PendingInv'
      BY <2>1 DEF HandleAttrs, Receives, PendingInv, userVars
    <2>2. ASSUME HandleValue PROVE PendingInv'
      <3>1. /\ upc = "idle" /\ hpc = "idle"
            /\ UNCHANGED <<upc, resets, typed, to_send_>>
        BY <2>2 DEF HandleValue, ValueChange, Receives, userVars
      <3>2. /\ ~typed => UNCHANGED <<latency_, wait_until_, hpc>>
            /\ typed /\ latency_ < 0 => hpc' \in {"idle", "clear", "flush"}
            /\ hpc' = "clear" => to_send_ = Empty
            /\ hpc' = "idle" /\ typed => latency_ < 0
        BY <2>2, <3>1 DEF HandleValue, ValueChange
      <3>3. latency_ >= 0 => latency_' >= 0
        BY <2>2, ValueChangeLatency
      <3>4. latency_' \in Int
        BY <2>2, ValueChangeLatency
      <3>5. hpc' # "query"
        BY <2>2, <3>1 DEF HandleValue, ValueChange
      <3> QED BY <3>1, <3>2, <3>3, <3>4, <3>5 DEF LatencyInv, PendingInv
    <2>3. CASE HandleQuery
      BY <2>3 DEF HandleQuery, QueryValue, Branch, LatencyInv, ThrottleInv,
                  PendingInv, userVars
    <2>4. CASE HandleFlush
      BY <2>4 DEF HandleFlush, LatencyInv, PendingInv, userVars, proxyVars
    <2>5. CASE HandleFlushed
      BY <2>5 DEF HandleFlushed, LatencyInv, ThrottleInv, PendingInv, userVars
    <2>6. CASE HandleClear
      BY <2>6 DEF HandleClear, LatencyInv, ThrottleInv, PendingInv, userVars
    <2> QED BY <1>5, <2>1, <2>2, <2>3, <2>4, <2>5, <2>6 DEF HandleReply
  <1>6. CASE RemoteReceive \/ RemoteChange \/ NetworkFails \/ Tick \/ UNCHANGED vars
    BY <1>6 DEF RemoteReceive, RemoteChange, NetworkFails, Tick, PendingInv, proxyVars,
                userVars, vars
  <1> QED BY <1>1, <1>2, <1>3, <1>4, <1>5, <1>6 DEF Next

(* Under the lock, and until the connection is reset, a value that waits in *)
(* to_send_ waits for an answer.                                            *)
THEOREM PendingHasWait ==
  ASSUME Serialised
  PROVE  Spec => []PendingIsAwaited
  <1>1. Init => PendingInv
    BY DEF Init, PendingInv
  <1>2. LatencyInv /\ ThrottleInv /\ PendingInv /\ [Next]_vars => PendingInv'
    BY PendingStep
  <1>3. PendingInv => PendingIsAwaited
    BY DEF PendingInv, PendingIsAwaited
  <1> QED BY <1>1, <1>2, <1>3, LatencyInvariant, ThrottleInvariant, PTL DEF Spec

(* The three invariants together are the one that TLC checks.               *)
THEOREM ProxyInvariant == Spec => []ProxyInv
  <1>1. CASE ~Serialised
    <2>1. LatencyInv => ProxyInv
      BY <1>1 DEF ProxyInv
    <2> QED BY <2>1, LatencyInvariant, PTL
  <1>2. CASE Serialised
    <2>1. Init => PendingInv
      BY DEF Init, PendingInv
    <2>2. LatencyInv /\ ThrottleInv /\ PendingInv /\ [Next]_vars => PendingInv'
      BY <1>2, PendingStep
    <2>3. LatencyInv /\ ThrottleInv /\ PendingInv => ProxyInv
      BY DEF ProxyInv
    <2>4. Spec => []ThrottleInv
      BY <1>2, ThrottleInvariant
    <2> QED BY <2>1, <2>2, <2>3, <2>4, LatencyInvariant, PTL DEF Spec
  <1> QED BY <1>1, <1>2
=============================================================================
