------------------------------- MODULE Timer -------------------------------
(***************************************************************************)
(* Control of oscit's Timer (include/oscit/timer.h) and of the Thread it   *)
(* owns (include/oscit/thread.h): several client threads call start, stop  *)
(* and set_interval while the loop thread runs the owner's callback.       *)
(*                                                                         *)
(* What a client does between two accesses to shared state is one step, so *)
(* the unsynchronised reads and writes of should_run_, running_ and        *)
(* thread_id_ interleave as in the code.  Time is abstracted: a sleep may  *)
(* end at any moment (the interval arithmetic is module TimerSchedule).    *)
(***************************************************************************)
EXTENDS Integers, FiniteSets

CONSTANTS
  Client,     \* threads that call the methods of the timer
  Loop,       \* identities for the threads pthread_create returns
  NoThread    \* the NULL of thread_id_, and of a mutex nobody holds

ASSUME ThreadsAssumption ==
  /\ Client \cap Loop = {}
  /\ NoThread \notin Client \cup Loop

VARIABLES
  mutex_,       \* holder of Timer::mutex_
  thread_id_,   \* Thread::thread_id_
  running_,     \* Timer::running_
  should_run_,  \* Timer::should_run_
  semaphore_,   \* Thread::semaphore_, the counter thread_ready() releases
  op,           \* op[c]: the method client c is executing
  cpc,          \* cpc[c]: where client c is in that method
  target,       \* target[c]: the thread c's pthread_join waits for
  lpc           \* lpc[l]: where loop thread l is in its life

timerVars == <<mutex_, thread_id_, running_, should_run_, semaphore_, op, cpc,
          target, lpc>>
clientVars == <<op, cpc, target>>

Method == {"start", "stop", "set_interval"}
ClientPc == {"idle", "locked", "interrupt", "join_test", "join", "joining",
             "joined", "create", "wait_ready", "unlock"}
LoopPc == {"unborn", "starting", "test", "lock", "callback", "sleep",
           "sleeping", "leaving", "returning", "dead"}

(***************************************************************************)
(* A loop thread that exists and has not finished.                         *)
(***************************************************************************)
Alive(l) == lpc[l] \notin {"unborn", "dead"}

TimerInit ==
  /\ mutex_ = NoThread
  /\ thread_id_ = NoThread
  /\ running_ = FALSE
  /\ should_run_ \in BOOLEAN         \* the constructor leaves it unset
  /\ semaphore_ = 0
  /\ op = [c \in Client |-> "stop"]
  /\ cpc = [c \in Client |-> "idle"]
  /\ target = [c \in Client |-> NoThread]
  /\ lpc = [l \in Loop |-> "unborn"]

Goto(c, from, to) ==
  /\ cpc[c] = from
  /\ cpc' = [cpc EXCEPT ![c] = to]

LoopGoto(l, from, to) ==
  /\ lpc[l] = from
  /\ lpc' = [lpc EXCEPT ![l] = to]

-----------------------------------------------------------------------------
(* Client side *)

(* start(), stop() or set_interval() is called and ScopedLock succeeds. *)
Call(c, m) ==
  /\ mutex_ = NoThread
  /\ mutex_' = c
  /\ Goto(c, "idle", "locked")
  /\ op' = [op EXCEPT ![c] = m]
  /\ UNCHANGED <<thread_id_, running_, should_run_, semaphore_, target, lpc>>

(* Mutant: stop clears should_run_ and returns without joining. *)
DecideNoJoin(c) ==
  /\ Goto(c, "locked",
          IF running_ /\ op[c] # "stop" THEN "interrupt"
          ELSE IF op[c] = "start" THEN "create" ELSE "unlock")
  /\ should_run_' = IF running_ /\ op[c] # "set_interval" THEN FALSE
                    ELSE should_run_
  /\ UNCHANGED <<mutex_, thread_id_, running_, semaphore_, op, target, lpc>>

(* "if (running_)": start and stop clear should_run_ before interrupting.   *)
Decide(c) ==
  /\ Goto(c, "locked",
          IF running_ THEN "interrupt"
          ELSE IF op[c] = "start" THEN "create" ELSE "unlock")
  /\ should_run_' = IF running_ /\ op[c] # "set_interval" THEN FALSE
                    ELSE should_run_
  /\ UNCHANGED <<mutex_, thread_id_, running_, semaphore_, op, target, lpc>>

(* pthread_kill(thread_id_, SIGUSR1): it only ends a sleep in progress;    *)
(* the handler does nothing elsewhere, nor does a call on a null id that   *)
(* returns (the call that crashes takes no further step).                  *)
Interrupt(c) ==
  /\ Goto(c, "interrupt",
          IF op[c] = "set_interval" THEN "unlock" ELSE "join_test")
  /\ lpc' = [l \in Loop |->
               IF l = thread_id_ /\ lpc[l] = "sleeping" THEN "test" ELSE lpc[l]]
  /\ UNCHANGED <<mutex_, thread_id_, running_, should_run_, semaphore_, op,
                 target>>

(* Thread::join reads thread_id_ for its test ... *)
JoinTest(c) ==
  /\ Goto(c, "join_test", IF thread_id_ = NoThread THEN "joined" ELSE "join")
  /\ UNCHANGED <<mutex_, thread_id_, running_, should_run_, semaphore_, op,
                 target, lpc>>

(* ... and again for the argument of pthread_join. *)
JoinCall(c) ==
  /\ Goto(c, "join", "joining")
  /\ target' = [target EXCEPT ![c] = thread_id_]
  /\ UNCHANGED <<mutex_, thread_id_, running_, should_run_, semaphore_, op, lpc>>

(* Mutant: the thread is detached instead of joined. *)
JoinDoneEarly(c) ==
  /\ Goto(c, "joining", "joined")
  /\ target' = [target EXCEPT ![c] = NoThread]
  /\ thread_id_' = NoThread
  /\ UNCHANGED <<mutex_, running_, should_run_, semaphore_, op, lpc>>

(* pthread_join returns: the target is over, or was null.  Then            *)
(* "thread_id_ = NULL".                                                    *)
JoinDone(c) ==
  /\ \A l \in Loop : target[c] = l => lpc[l] = "dead"
  /\ Goto(c, "joining", "joined")
  /\ target' = [target EXCEPT ![c] = NoThread]
  /\ thread_id_' = NoThread
  /\ UNCHANGED <<mutex_, running_, should_run_, semaphore_, op, lpc>>

AfterJoin(c) ==
  /\ Goto(c, "joined", IF op[c] = "start" THEN "create" ELSE "unlock")
  /\ UNCHANGED <<mutex_, thread_id_, running_, should_run_, semaphore_, op,
                 target, lpc>>

(* Thread::start_thread refuses when is_running(), else pthread_create.    *)
Create(c) ==
  /\ Goto(c, "create", IF thread_id_ = NoThread THEN "wait_ready" ELSE "unlock")
  /\ IF thread_id_ = NoThread
     THEN \E l \in Loop : /\ LoopGoto(l, "unborn", "starting")
                          /\ thread_id_' = l
     ELSE UNCHANGED <<thread_id_, lpc>>
  /\ UNCHANGED <<mutex_, running_, should_run_, semaphore_, op, target>>

(* semaphore_.acquire() of start_thread: wait for thread_ready(). *)
AcquireReady(c) ==
  /\ semaphore_ > 0
  /\ semaphore_' = semaphore_ - 1
  /\ Goto(c, "wait_ready", "unlock")
  /\ UNCHANGED <<mutex_, thread_id_, running_, should_run_, op, target, lpc>>

Unlock(c) ==
  /\ Goto(c, "unlock", "idle")
  /\ mutex_' = NoThread
  /\ UNCHANGED <<thread_id_, running_, should_run_, semaphore_, op, target, lpc>>

-----------------------------------------------------------------------------
(* Loop thread *)

(* Timer::start_thread in the new thread, up to thread_ready(). *)
LoopStart(l) ==
  /\ LoopGoto(l, "starting", "test")
  /\ should_run_' = TRUE
  /\ running_' = TRUE
  /\ semaphore_' = semaphore_ + 1
  /\ UNCHANGED <<mutex_, thread_id_, clientVars>>

(* "while (should_run_)", read without the mutex. *)
LoopTest(l) ==
  /\ LoopGoto(l, "test", IF should_run_ THEN "lock" ELSE "leaving")
  /\ UNCHANGED <<mutex_, thread_id_, running_, should_run_, semaphore_,
                 clientVars>>

(* ScopedLock of the loop body. *)
LoopLock(l) ==
  /\ mutex_ = NoThread
  /\ mutex_' = l
  /\ LoopGoto(l, "lock", "callback")
  /\ UNCHANGED <<thread_id_, running_, should_run_, semaphore_, clientVars>>

(* The body is over (callback made or not), the scope ends: unlock. *)
LoopUnlock(l) ==
  /\ LoopGoto(l, "callback", "sleep")
  /\ mutex_' = NoThread
  /\ UNCHANGED <<thread_id_, running_, should_run_, semaphore_, clientVars>>

LoopSleep(l) ==
  /\ LoopGoto(l, "sleep", "sleeping")
  /\ UNCHANGED <<mutex_, thread_id_, running_, should_run_, semaphore_,
                 clientVars>>

(* Mutant: the loop leaves without clearing running_. *)
LoopLeaveRunning(l) ==
  /\ LoopGoto(l, "leaving", "returning")
  /\ UNCHANGED <<mutex_, thread_id_, running_, should_run_, semaphore_,
                 clientVars>>

(* nanosleep returns because the delay is over. *)
LoopWake(l) ==
  /\ LoopGoto(l, "sleeping", "test")
  /\ UNCHANGED <<mutex_, thread_id_, running_, should_run_, semaphore_,
                 clientVars>>

LoopLeave(l) ==
  /\ LoopGoto(l, "leaving", "returning")
  /\ running_' = FALSE
  /\ UNCHANGED <<mutex_, thread_id_, should_run_, semaphore_, clientVars>>

(* s_start_thread after the method: thread_id_ = NULL, return. *)
LoopReturn(l) ==
  /\ LoopGoto(l, "returning", "dead")
  /\ thread_id_' = NoThread
  /\ UNCHANGED <<mutex_, running_, should_run_, semaphore_, clientVars>>

-----------------------------------------------------------------------------
ClientStep(c) ==
  \/ Decide(c) \/ Interrupt(c) \/ JoinTest(c) \/ JoinCall(c) \/ JoinDone(c)
  \/ AfterJoin(c) \/ Create(c) \/ AcquireReady(c) \/ Unlock(c)

LoopStep(l) ==
  \/ LoopStart(l) \/ LoopTest(l) \/ LoopLock(l) \/ LoopUnlock(l)
  \/ LoopSleep(l) \/ LoopWake(l) \/ LoopLeave(l) \/ LoopReturn(l)

TimerNext ==
  \/ \E c \in Client, m \in Method : Call(c, m)
  \/ \E c \in Client : ClientStep(c)
  \/ \E l \in Loop : LoopStep(l)

TimerSpec == TimerInit /\ [][TimerNext]_timerVars

-----------------------------------------------------------------------------
TypeOK ==
  /\ mutex_ \in Client \cup Loop \cup {NoThread}
  /\ thread_id_ \in Loop \cup {NoThread}
  /\ running_ \in BOOLEAN
  /\ should_run_ \in BOOLEAN
  /\ semaphore_ \in Nat
  /\ op \in [Client -> Method]
  /\ cpc \in [Client -> ClientPc]
  /\ target \in [Client -> Loop \cup {NoThread}]
  /\ lpc \in [Loop -> LoopPc]

(* However start and stop of several clients interleave, two loop threads  *)
(* never exist together: the callback has one caller at a time and no      *)
(* forgotten loop goes on firing (timer.h:54-83, every start joins first). *)
OneLoop ==
  \A l, m \in Loop : Alive(l) /\ Alive(m) => l = m

(* "ensure we don't access stale data" (timer.h:49-51): when no method is  *)
(* in progress and should_run_ has been cleared, which is how stop leaves  *)
(* it, the loop is over and the owner can be destroyed.                    *)
QuietAfterStop ==
  mutex_ \notin Client /\ ~should_run_ => \A l \in Loop : ~Alive(l)

(* running() tells the truth whenever no method is half way.               *)
RunningIsAccurate ==
  mutex_ \notin Client => (running_ <=> \E l \in Loop : Alive(l))

(* start never finds a thread id in place and so never gives up (the "Trying *)
(* to start thread when it is already running" branch of start_thread).   *)
StartNeverRefused ==
  \A c \in Client : cpc[c] = "create" => thread_id_ = NoThread

(* The start-up handshake is exact: the new thread has raised the semaphore *)
(* for the client that waits for it and for no one else, so a later start  *)
(* cannot return before its own thread is ready.                           *)
ReadyIsOwed ==
  semaphore_ > 0 =>
    \E c \in Client : cpc[c] = "wait_ready" /\ running_ /\ semaphore_ = 1

-----------------------------------------------------------------------------
(* The inductive invariant behind these properties (proved in TimerProofs). *)

Looping == {"test", "lock", "callback", "sleep", "sleeping"}

(* Nobody is changing the loop: it is running normally or there is none. *)
Steady ==
  /\ running_ => thread_id_ # NoThread
  /\ thread_id_ # NoThread =>
       running_ /\ should_run_ /\ lpc[thread_id_] \in Looping

(* A loop told to leave: it is past its start and will see should_run_.    *)
ToldToLeave ==
  /\ ~should_run_
  /\ thread_id_ # NoThread => lpc[thread_id_] # "starting"

(* Who holds the mutex is where the program counters say.                  *)
HolderInv ==
  /\ \A c \in Client : cpc[c] # "idle" <=> mutex_ = c
  /\ \A l \in Loop : lpc[l] = "callback" <=> mutex_ = l

(* thread_id_ names the one living loop, running_ is set between its start *)
(* and its end, and it leaves only when told to.                           *)
LoopInv ==
  /\ \A l \in Loop : Alive(l) <=> thread_id_ = l
  /\ running_ <=> /\ thread_id_ # NoThread
                  /\ lpc[thread_id_] \notin {"starting", "returning"}
  /\ thread_id_ # NoThread /\ lpc[thread_id_] \in {"leaving", "returning"} =>
       ~should_run_

(* What the client inside a method may rely on, point by point.            *)
ClientInv(c) ==
  /\ cpc[c] \in {"locked", "unlock"} => Steady
  /\ cpc[c] = "interrupt" /\ op[c] = "set_interval" => Steady
  /\ cpc[c] = "interrupt" /\ op[c] # "set_interval" => ToldToLeave
  /\ cpc[c] \in {"join_test", "join", "joining"} => ToldToLeave
  /\ cpc[c] = "joining" /\ thread_id_ # NoThread => target[c] = thread_id_
  /\ cpc[c] \in {"joined", "create"} => thread_id_ = NoThread
  /\ cpc[c] = "wait_ready" =>
       /\ thread_id_ # NoThread
       /\ \/ semaphore_ = 0 /\ lpc[thread_id_] = "starting"
          \/ semaphore_ = 1 /\ Steady

(* While no method is in progress the loop is steady, and the semaphore is *)
(* up only for a client that waits for it.                                 *)
TimerInv ==
  /\ HolderInv
  /\ LoopInv
  /\ \A c \in Client : ClientInv(c)
  /\ mutex_ \notin Client => Steady
  /\ semaphore_ # 0 => \E c \in Client : cpc[c] = "wait_ready"

-----------------------------------------------------------------------------
(* What the source states and the code does not keep. *)

(* thread.h:151 "Send a signal to the running thread."                     *)
SignalHasTarget ==
  \A c \in Client : cpc[c] = "interrupt" => thread_id_ # NoThread

(* stop() returns (test/timer_test.h, should_fire_between_start_and_stop): *)
(* no client joins a loop that itself waits for the mutex the client holds. *)
JoinedLoopCanFinish ==
  \A c \in Client :
    cpc[c] = "joining" /\ target[c] # NoThread => lpc[target[c]] # "lock"
=============================================================================
